---- MODULE Spec2Model ----
(***************************************************************************)
(* fernfs: the RPC transaction tracker (src/protocol/rpc) and the identity *)
(* map of the mirror file system (examples/mirror_fs/fs_map.rs), each as a *)
(* state machine of its own specification; the permission evaluator       *)
(* (src/vfs/permissions.rs), MNT's path matching (src/protocol/nfs/mount)  *)
(* and XDR padding (src/protocol/xdr/utils.rs) as functions applied to     *)
(* every input of their bounds.                                            *)
(***************************************************************************)
EXTENDS Integers, Sequences, FiniteSets, TLC

(***************************************************************************)
(* Bounds of the model.                                                    *)
(***************************************************************************)
\* the wall clock runs from 0 to MaxTime ticks
MaxTime == 3
\* connection tasks that call into the tracker concurrently
NumTasks == 2
\* distinct <xid, client address> keys
NumKeys == 2
\* distinct response byte strings
NumResponses == 2

\* Duration::from_secs(1), in clock ticks
OneSecond == 2

Tasks == 1..NumTasks
Keys == 1..NumKeys
Responses == 1..NumResponses
\* retention periods handed to TransactionTracker::new, in ticks
RetentionPeriods == {1, 2}

None == [none |-> TRUE]

(***************************************************************************)
(* Finite maps (HashMap / BTreeMap) as functions with a finite domain.     *)
(***************************************************************************)
EmptyMap == [x \in {} |-> 0]

MapInsert(m, k, v) == [x \in (DOMAIN m) \cup {k} |-> IF x = k THEN v ELSE m[x]]

MapRemove(m, k) == [x \in (DOMAIN m) \ {k} |-> m[x]]

MapRestrict(m, keys) == [x \in (DOMAIN m) \cap keys |-> m[x]]

Max(a, b) == IF a >= b THEN a ELSE b

(***************************************************************************)
(* The transaction tracker.                                                *)
(***************************************************************************)
VARIABLES
    clock,              \* SystemTime::now()
    retention_period,   \* TransactionTracker.retention_period
    housekeeping_interval, \* TransactionTracker.housekeeping_interval
    transactions,       \* TransactionStore.transactions: key -> TransactionState
    last_housekeeping,  \* TransactionStore.last_housekeeping
    pending,            \* per task: the call that has read the clock and waits for the mutex
    last,               \* what the check that has just left the mutex returned, and for
                        \*   which key; "cleared" and the key after a clear; none after
                        \*   any other step
    armed,              \* history: key -> a check returned New and the key was neither
                        \*   cleared nor evicted as an expired Completed entry since
    inflight,           \* history: key -> the clock reading of the check that returned
                        \*   New, -1 once record_response or clear was called for the key
    recorded            \* history: key -> the last record_response not yet followed by a
                        \*   check or clear of the key, with whether an expiring sweep ran

trackerVars == <<clock, retention_period, housekeeping_interval, transactions,
                 last_housekeeping, pending, last, armed, inflight, recorded>>

\* the identity map and the host directory it mirrors
VARIABLES
    hostPaths,   \* the host tree below the root: path -> inode number
    hostInodes,  \* the host's inodes in use: inode number -> [ftype, ver, readable]
    fsmap,       \* the FSMap
    fsLast,      \* the FSMap operation that has just run, with its arguments and result;
                 \*   none after a host step
    hostSeen,    \* names and inode numbers are numbered in the order in which the host
                 \*   first uses them: how many of each it has used
    mapRenames,  \* what the rename_path_prefix calls so far did: "none" moved no path,
                 \*   "moved" all moved onto free targets, "over" one moved onto known paths
    hostSteps,   \* out-of-band changes so far
    mapSteps     \* FSMap operations so far

fsVars == <<hostPaths, hostInodes, fsmap, fsLast, hostSeen, mapRenames, hostSteps,
            mapSteps>>

\* the dispatch surface: the permission evaluator, MOUNT's path matching, XDR padding
VARIABLES
    call,   \* the call under evaluation with its arguments; none where no such call is made
    ret     \* what the call returned; none until it has returned

dispatchVars == <<call, ret>>

\* FSMap operations as the tasks run them: an `async fn (&mut self)` that awaits host I/O
VARIABLES
    mapOwner,   \* the task inside an FSMap operation, which has the map as `&mut self`;
                \*   0 when no task is
    mapTask     \* per task: the await its FSMap operation is suspended at, with the
                \*   locals that live across it; idle outside an operation

awaitVars == <<mapOwner, mapTask>>

InProgress == [state |-> "InProgress", completion_time |-> 0, response |-> 0]

Completed(t, b) == [state |-> "Completed", completion_time |-> t, response |-> b]

\* TransactionTracker::new: the housekeeping interval for a retention period
HousekeepingIntervalMutantZero(d) == 0

HousekeepingInterval(d) ==
    IF d < OneSecond THEN d ELSE Max(OneSecond, d \div 4)

\* now.duration_since(last).map(|elapsed| elapsed >= interval).unwrap_or(true)
should_housekeep(lastT, now, interval) ==
    IF now >= lastT THEN now - lastT >= interval ELSE TRUE

housekeepingMutantEvictsInProgress(store, max_age, now) ==
    LET cutoff == now - max_age
        keep(v) == v.state = "Completed" /\ v.completion_time >= cutoff
    IN  MapRestrict(store, {k \in DOMAIN store : keep(store[k])})

housekeepingMutantEvictsAtCutoff(store, max_age, now) ==
    LET cutoff == now - max_age
        keep(v) == v.state = "InProgress" \/ v.completion_time > cutoff
    IN  MapRestrict(store, {k \in DOMAIN store : keep(store[k])})

housekeepingMutantKeepsAll(store, max_age, now) == store

housekeepingMutantIgnoresMaxAge(store, max_age, now) ==
    LET cutoff == now
        keep(v) == v.state = "InProgress" \/ v.completion_time >= cutoff
    IN  MapRestrict(store, {k \in DOMAIN store : keep(store[k])})

\* housekeeping: retain InProgress and Completed with completion_time >= now - max_age
housekeeping(store, max_age, now) ==
    LET cutoff == now - max_age
        keep(v) == v.state = "InProgress" \/ v.completion_time >= cutoff
    IN  MapRestrict(store, {k \in DOMAIN store : keep(store[k])})

NoCall == [op |-> "none", key |-> 0, now |-> 0, response |-> 0]

NoResult == [key |-> 0, status |-> "none", response |-> 0, now |-> 0, swept |-> FALSE,
             armed |-> FALSE, armedBefore |-> FALSE, inflightSince |-> -1,
             recorded |-> None, was |-> "none"]

\* the state of a key in a store
StateOf(store, k) == IF k \in DOMAIN store THEN store[k].state ELSE "absent"

TrackerInit ==
    /\ clock = 0
    /\ retention_period \in RetentionPeriods
    /\ housekeeping_interval = HousekeepingInterval(retention_period)
    /\ transactions = EmptyMap
    /\ last_housekeeping = 0
    /\ pending = [t \in Tasks |-> NoCall]
    /\ last = NoResult
    /\ armed = [k \in Keys |-> FALSE]
    /\ inflight = [k \in Keys |-> -1]
    /\ recorded = [k \in Keys |-> None]

\* time passes
Tick ==
    /\ clock < MaxTime
    /\ clock' = clock + 1
    /\ last' = NoResult
    /\ UNCHANGED <<fsVars, dispatchVars, awaitVars>>
    /\ UNCHANGED <<retention_period, housekeeping_interval, transactions,
                   last_housekeeping, pending, armed, inflight, recorded>>

\* check, up to the mutex: the key is built and the clock is read
CheckEnter(t, k) ==
    /\ pending[t].op = "none"
    /\ pending' = [pending EXCEPT ![t] =
                     [op |-> "check", key |-> k, now |-> clock, response |-> 0]]
    /\ last' = NoResult
    /\ UNCHANGED <<fsVars, dispatchVars, awaitVars>>
    /\ UNCHANGED <<clock, retention_period, housekeeping_interval, transactions,
                   last_housekeeping, armed, inflight, recorded>>

\* the status check returns for a key in a store, and the store it leaves
CheckLookupMutantNoInsert(store, k, now) ==
    IF k \notin DOMAIN store
    THEN [status |-> "New", response |-> 0, store |-> store]
    ELSE IF store[k].state = "InProgress"
    THEN [status |-> "InProgress", response |-> 0, store |-> store]
    ELSE [status |-> "Completed", response |-> store[k].response,
          store |-> MapInsert(store, k, Completed(now, store[k].response))]

CheckLookup(store, k, now) ==
    IF k \notin DOMAIN store
    THEN [status |-> "New", response |-> 0, store |-> MapInsert(store, k, InProgress)]
    ELSE IF store[k].state = "InProgress"
    THEN [status |-> "InProgress", response |-> 0, store |-> store]
    ELSE [status |-> "Completed", response |-> store[k].response,
          store |-> MapInsert(store, k, Completed(now, store[k].response))]

\* check, under the mutex: the opportunistic sweep, then the lookup
Check(t) ==
    /\ pending[t].op = "check"
    /\ LET k == pending[t].key
           now == pending[t].now
           sweep == /\ DOMAIN transactions # {}
                    /\ should_housekeep(last_housekeeping, now, housekeeping_interval)
           swept == IF sweep THEN housekeeping(transactions, retention_period, now)
                    ELSE transactions
           r == CheckLookup(swept, k, now)
           \* a Completed entry older than the retention period at this sweep
           expired(x) == /\ sweep
                         /\ x \in DOMAIN transactions
                         /\ transactions[x].state = "Completed"
                         /\ now - transactions[x].completion_time > retention_period
           armedNow == [x \in Keys |-> armed[x] /\ ~expired(x)]
           recordedNow == [x \in Keys |->
                             IF recorded[x] # None /\ sweep
                                /\ now - recorded[x].completion_time > retention_period
                             THEN [recorded[x] EXCEPT !.expired = TRUE]
                             ELSE recorded[x]]
       IN  /\ transactions' = r.store
           /\ last_housekeeping' = IF sweep THEN now ELSE last_housekeeping
           /\ last' = [key |-> k, status |-> r.status, response |-> r.response,
                       now |-> now, swept |-> sweep,
                       armed |-> armedNow[k], armedBefore |-> armed[k],
                       inflightSince |-> inflight[k], recorded |-> recordedNow[k],
                       \* what the key was before a clear that this check follows at once
                       was |-> IF last.status = "cleared" /\ last.key = k THEN last.was
                               ELSE "none"]
           /\ armed' = [armedNow EXCEPT ![k] = IF r.status = "New" THEN TRUE ELSE @]
           /\ inflight' = [inflight EXCEPT ![k] = IF r.status = "New" THEN now ELSE @]
           /\ recorded' = [recordedNow EXCEPT ![k] = None]
    /\ pending' = [pending EXCEPT ![t] = NoCall]
    /\ UNCHANGED <<clock, retention_period, housekeeping_interval>>
    /\ UNCHANGED <<fsVars, dispatchVars, awaitVars>>

\* record_response, up to the mutex
RecordResponseEnter(t, k, b) ==
    /\ pending[t].op = "none"
    /\ pending' = [pending EXCEPT ![t] =
                     [op |-> "record_response", key |-> k, now |-> clock, response |-> b]]
    /\ last' = NoResult
    /\ UNCHANGED <<fsVars, dispatchVars, awaitVars>>
    /\ UNCHANGED <<clock, retention_period, housekeeping_interval, transactions,
                   last_housekeeping, armed, inflight, recorded>>

record_responseMutantOnlyInProgress(store, k, completion_time, response) ==
    IF k \in DOMAIN store /\ store[k].state = "InProgress"
    THEN MapInsert(store, k, Completed(completion_time, response))
    ELSE store

\* the store record_response leaves
record_response(store, k, completion_time, response) ==
    MapInsert(store, k, Completed(completion_time, response))

\* record_response, under the mutex
RecordResponse(t) ==
    /\ pending[t].op = "record_response"
    /\ LET k == pending[t].key
           now == pending[t].now
           b == pending[t].response
       IN  /\ transactions' = record_response(transactions, k, now, b)
           /\ inflight' = [inflight EXCEPT ![k] = -1]
           /\ recorded' = [recorded EXCEPT ![k] =
                             [completion_time |-> now, response |-> b, expired |-> FALSE]]
    /\ pending' = [pending EXCEPT ![t] = NoCall]
    /\ last' = NoResult
    /\ UNCHANGED <<fsVars, dispatchVars, awaitVars>>
    /\ UNCHANGED <<clock, retention_period, housekeeping_interval, last_housekeeping,
                   armed>>

clearMutantKeepsCompleted(store, k) ==
    IF k \in DOMAIN store /\ store[k].state = "Completed" THEN store
    ELSE MapRemove(store, k)

\* the store clear leaves
clear(store, k) == MapRemove(store, k)

\* clear: no clock is read, the whole call is the critical section
Clear(t, k) ==
    /\ pending[t].op = "none"
    /\ transactions' = clear(transactions, k)
    /\ armed' = [armed EXCEPT ![k] = FALSE]
    /\ inflight' = [inflight EXCEPT ![k] = -1]
    /\ recorded' = [recorded EXCEPT ![k] = None]
    /\ last' = [NoResult EXCEPT !.status = "cleared", !.key = k,
                                !.was = StateOf(transactions, k)]
    /\ UNCHANGED <<fsVars, dispatchVars, awaitVars>>
    /\ UNCHANGED <<clock, retention_period, housekeeping_interval, last_housekeeping,
                   pending>>

TrackerNext ==
    \/ Tick
    \/ \E t \in Tasks, k \in Keys : CheckEnter(t, k)
    \/ \E t \in Tasks : Check(t)
    \/ \E t \in Tasks, k \in Keys, b \in Responses : RecordResponseEnter(t, k, b)
    \/ \E t \in Tasks : RecordResponse(t)
    \/ \E t \in Tasks, k \in Keys : Clear(t, k)


(***************************************************************************)
(* The identity map (FSMap) over a host file system that changes out of    *)
(* band.  Host paths are sequences of names; the map's paths are sequences *)
(* of symbols, a symbol being the position of a name in the intern table.  *)
(* The host does not change while one FSMap operation runs.                *)
(***************************************************************************)
\* distinct file names on the host
NumNames == 2
\* longest path, in components
MaxDepth == 2
\* inode numbers of the host besides the root's
NumInodes == 2
\* attribute versions (mtime, size, ...) an inode goes through: 0..MaxVersion
MaxVersion == 1
\* FileIds create_entry may allocate
MaxFileId == 3
\* nesting of remove_path_tree calls the stack holds
RecursionLimit == 5
\* out-of-band changes of the host in one run
MaxHostSteps == 3
\* FSMap operations in one run
MaxMapSteps == 3
MaxReaddirCalls == 5
MaxEntries == 2

\* FSMap::new: the root's FileId and the first value of next_fileid
RootId == 0
FirstFileId == 1
\* the inode number of the exported directory
RootIno == 0

Names == 1..NumNames
Inodes == 1..NumInodes
FileTypes == {"NF3REG", "NF3DIR"}

SeqsUpTo(S, n) == UNION {[1..k -> S] : k \in 0..n}

HostPathSet == SeqsUpTo(Names, MaxDepth)

IsPrefix(p, q) == Len(p) <= Len(q) /\ SubSeq(q, 1, Len(p)) = p

\* Vec<Symbol> as Ord: lexicographic, a proper prefix first
LexLess(p, q) ==
    \E i \in 1..(Len(q)) :
        /\ i <= Len(p) + 1
        /\ \A j \in 1..(i - 1) : p[j] = q[j]
        /\ (i = Len(p) + 1 \/ p[i] < q[i])

\* BTreeSet::iter().next(): the smallest element
MinPath(S) == CHOOSE p \in S : \A q \in S : p = q \/ LexLess(p, q)

Perms(S) == {s \in [1..Cardinality(S) -> S] : \A i, j \in DOMAIN s : i # j => s[i] # s[j]}

\* the keys of a BTreeMap<Symbol, _> in iteration order
SortedKeys(S) == CHOOSE s \in Perms(S) : \A i, j \in DOMAIN s : i < j => s[i] < s[j]


(***************************************************************************)
(* The host.                                                               *)
(***************************************************************************)
Parent(p) == SubSeq(p, 1, Len(p) - 1)

HostExists(paths, p) == p = <<>> \/ p \in DOMAIN paths

HostIno(paths, p) == IF p = <<>> THEN RootIno ELSE paths[p]

\* std::fs::symlink_metadata / DirEntry::metadata: <dev, ino>, type and the rest
HostStat(paths, inodes, p) ==
    [ino |-> HostIno(paths, p),
     ftype |-> inodes[HostIno(paths, p)].ftype,
     ver |-> inodes[HostIno(paths, p)].ver]

HostIsDir(paths, inodes, p) ==
    HostExists(paths, p) /\ inodes[HostIno(paths, p)].ftype = "NF3DIR"

\* std::fs::read_dir succeeds: the path is a directory the server may open
HostReadDirOk(paths, inodes, p) ==
    HostIsDir(paths, inodes, p) /\ inodes[HostIno(paths, p)].readable

\* the names read_dir yields
HostListing(paths, p) == {n \in Names : Append(p, n) \in DOMAIN paths}

\* exists_no_traverse
exists_no_traverse(paths, p) == HostExists(paths, p)

(***************************************************************************)
(* fattr3 and FSEntry.                                                     *)
(***************************************************************************)
metadata_to_fattr3(id, meta) == [ftype |-> meta.ftype, ver |-> meta.ver, fileid |-> id]

fattr3_differ(a, b) == a.ftype # b.ftype \/ a.ver # b.ver

NoChildren == [some |-> FALSE, map |-> EmptyMap]

SomeChildren(map) == [some |-> TRUE, map |-> map]

\* FSEntry::new
FSEntryNew(name, fsmeta) ==
    [name |-> name, aliases |-> {name}, fsmeta |-> fsmeta, children_meta |-> fsmeta,
     children |-> NoChildren]

is_directory(entry) == entry.fsmeta.ftype = "NF3DIR"

(***************************************************************************)
(* The symbol table.                                                       *)
(***************************************************************************)
\* SymbolTable::check_interned: the symbol of a name, 0 if it has none
check_interned(table, n) ==
    IF \E i \in DOMAIN table : table[i] = n
    THEN CHOOSE i \in DOMAIN table : table[i] = n
    ELSE 0

\* SymbolTable::intern: the table after interning a name
intern(table, n) == IF check_interned(table, n) # 0 THEN table ELSE Append(table, n)

\* sym_to_path, relative to the root
sym_to_path(table, symlist) == [i \in 1..Len(symlist) |-> table[symlist[i]]]

(***************************************************************************)
(* FSMap operations, each the map a call leaves.                           *)
(***************************************************************************)
remove_pathMutantKeepsInodeKey(m, path) ==
    IF path \notin DOMAIN m.path_to_id THEN m
    ELSE LET fileid == m.path_to_id[path]
             m1 == [m EXCEPT !.path_to_id = MapRemove(@, path)]
         IN  IF fileid \notin DOMAIN m1.id_to_path THEN m1
             ELSE LET e == m1.id_to_path[fileid]
                      al == e.aliases \ {path}
                  IN  IF al = {}
                      THEN [m1 EXCEPT !.id_to_path = MapRemove(@, fileid),
                                      !.id_to_inode = MapRemove(@, fileid)]
                      ELSE [m1 EXCEPT !.id_to_path[fileid] =
                                [e EXCEPT !.aliases = al,
                                          !.name = IF e.name = path THEN MinPath(al) ELSE @]]

remove_pathMutantDropsAliasedEntry(m, path) ==
    IF path \notin DOMAIN m.path_to_id THEN m
    ELSE LET fileid == m.path_to_id[path]
             m1 == [m EXCEPT !.path_to_id = MapRemove(@, path)]
         IN  IF fileid \notin DOMAIN m1.id_to_path THEN m1
             ELSE [m1 EXCEPT !.id_to_path = MapRemove(@, fileid),
                             !.id_to_inode = MapRemove(@, fileid),
                             !.inode_to_id =
                                 IF fileid \in DOMAIN m1.id_to_inode
                                 THEN MapRemove(@, m1.id_to_inode[fileid])
                                 ELSE @]

remove_pathMutantLargestPrimary(m, path) ==
    IF path \notin DOMAIN m.path_to_id THEN m
    ELSE LET fileid == m.path_to_id[path]
             m1 == [m EXCEPT !.path_to_id = MapRemove(@, path)]
         IN  IF fileid \notin DOMAIN m1.id_to_path THEN m1
             ELSE LET e == m1.id_to_path[fileid]
                      al == e.aliases \ {path}
                  IN  IF al = {}
                      THEN [m1 EXCEPT !.id_to_path = MapRemove(@, fileid),
                                      !.id_to_inode = MapRemove(@, fileid),
                                      !.inode_to_id =
                                          IF fileid \in DOMAIN m1.id_to_inode
                                          THEN MapRemove(@, m1.id_to_inode[fileid])
                                          ELSE @]
                      ELSE [m1 EXCEPT !.id_to_path[fileid] =
                                [e EXCEPT !.aliases = al,
                                          !.name = IF e.name = path
                                                   THEN CHOOSE a \in al :
                                                          \A b \in al : a = b \/ LexLess(b, a)
                                                   ELSE @]]

\* remove_path
remove_path(m, path) ==
    IF path \notin DOMAIN m.path_to_id THEN m
    ELSE LET fileid == m.path_to_id[path]
             m1 == [m EXCEPT !.path_to_id = MapRemove(@, path)]
         IN  IF fileid \notin DOMAIN m1.id_to_path THEN m1
             ELSE LET e == m1.id_to_path[fileid]
                      al == e.aliases \ {path}
                  IN  IF al = {}
                      THEN [m1 EXCEPT !.id_to_path = MapRemove(@, fileid),
                                      !.id_to_inode = MapRemove(@, fileid),
                                      !.inode_to_id =
                                          IF fileid \in DOMAIN m1.id_to_inode
                                          THEN MapRemove(@, m1.id_to_inode[fileid])
                                          ELSE @]
                      ELSE [m1 EXCEPT !.id_to_path[fileid] =
                                [e EXCEPT !.aliases = al,
                                          !.name = IF e.name = path THEN MinPath(al) ELSE @]]

\* the path a rename gives a path under from_prefix
Reprefix(path, from_prefix, to_prefix) ==
    to_prefix \o SubSeq(path, Len(from_prefix) + 1, Len(path))

\* one step of the second loop of rename_path_prefix
RenameOne(m, old_path, new_path, fileid) ==
    LET m1 == [m EXCEPT !.path_to_id = MapInsert(MapRemove(@, old_path), new_path, fileid)]
    IN  IF fileid \notin DOMAIN m1.id_to_path THEN m1
        ELSE LET e == m1.id_to_path[fileid]
                 al == IF old_path \in e.aliases
                       THEN (e.aliases \ {old_path}) \cup {new_path}
                       ELSE e.aliases
             IN  [m1 EXCEPT !.id_to_path[fileid] =
                     [e EXCEPT !.aliases = al,
                               !.name = IF e.name = old_path THEN new_path ELSE @]]

RECURSIVE RenameAll(_, _, _, _)
RenameAll(m, updates, from_prefix, to_prefix) ==
    IF updates = {} THEN m
    ELSE LET old_path == MinPath(updates)
         IN  RenameAll(RenameOne(m, old_path, Reprefix(old_path, from_prefix, to_prefix),
                                 m.path_to_id[old_path]),
                       updates \ {old_path}, from_prefix, to_prefix)

rename_path_prefixMutantExactOnly(m, from_prefix, to_prefix) ==
    IF from_prefix = to_prefix THEN m
    ELSE RenameAll(m, {p \in DOMAIN m.path_to_id : p = from_prefix}, from_prefix, to_prefix)

\* rename_path_prefix; the order of the updates is that of a HashMap's iteration, and
\* it does not matter when neither prefix is a prefix of the other
rename_path_prefix(m, from_prefix, to_prefix) ==
    IF from_prefix = to_prefix THEN m
    ELSE RenameAll(m, {p \in DOMAIN m.path_to_id : IsPrefix(from_prefix, p)},
                   from_prefix, to_prefix)

ChildSeqMutantDescending(children) ==
    LET keys == SortedKeys(DOMAIN children.map)
    IN  [i \in DOMAIN keys |-> <<keys[Len(keys) + 1 - i],
                                 children.map[keys[Len(keys) + 1 - i]]>>]

\* the pairs of a children map in iteration order
ChildSeq(children) ==
    LET keys == SortedKeys(DOMAIN children.map)
    IN  [i \in DOMAIN keys |-> <<keys[i], children.map[keys[i]]>>]

RECURSIVE remove_path_tree(_, _, _, _)
RECURSIVE remove_children(_, _, _, _)

\* the loop of remove_path_tree over the children
remove_children(m, path, kids, depth) ==
    IF kids = <<>> \/ m.aborted THEN m
    ELSE LET child_path == Append(path, Head(kids)[1])
             child_id == Head(kids)[2]
             m1 == IF /\ child_id \in DOMAIN m.id_to_path
                      /\ is_directory(m.id_to_path[child_id])
                   THEN remove_path_tree(m, child_path, child_id, depth + 1)
                   ELSE remove_path(m, child_path)
         IN  remove_children(m1, path, Tail(kids), depth)

\* remove_path_tree; a nesting deeper than the stack holds aborts the process
remove_path_tree(m, path, id, depth) ==
    IF m.aborted THEN m
    ELSE IF depth > RecursionLimit THEN [m EXCEPT !.aborted = TRUE]
    ELSE IF id \notin DOMAIN m.id_to_path THEN m
    ELSE LET entry == m.id_to_path[id]
             m1 == IF is_directory(entry) /\ entry.children.some
                   THEN remove_children(m, path, ChildSeq(entry.children), depth)
                   ELSE m
         IN  IF m1.aborted THEN m1 ELSE remove_path(m1, path)

\* delete_entry
delete_entry(m, id) ==
    IF id \in DOMAIN m.id_to_path
    THEN remove_path_tree(m, m.id_to_path[id].name, id, 1)
    ELSE m

create_entryMutantNoInodeLookup(m, fullpath, meta) ==
    IF fullpath \in DOMAIN m.path_to_id
    THEN LET chid == m.path_to_id[fullpath]
         IN  [id |-> chid,
              m |-> IF chid \in DOMAIN m.id_to_path
                    THEN [m EXCEPT !.id_to_path[chid].fsmeta = metadata_to_fattr3(chid, meta)]
                    ELSE m]
    ELSE LET next_id == m.next_fileid
         IN  [id |-> next_id,
              m |-> [m EXCEPT !.next_fileid = @ + 1,
                              !.id_to_path = MapInsert(@, next_id,
                                  FSEntryNew(fullpath, metadata_to_fattr3(next_id, meta))),
                              !.path_to_id = MapInsert(@, fullpath, next_id),
                              !.inode_to_id = MapInsert(@, meta.ino, next_id),
                              !.id_to_inode = MapInsert(@, next_id, meta.ino)]]

create_entryMutantReusesFreedId(m, fullpath, meta) ==
    IF fullpath \in DOMAIN m.path_to_id
    THEN LET chid == m.path_to_id[fullpath]
         IN  [id |-> chid,
              m |-> IF chid \in DOMAIN m.id_to_path
                    THEN [m EXCEPT !.id_to_path[chid].fsmeta = metadata_to_fattr3(chid, meta)]
                    ELSE m]
    ELSE IF meta.ino \in DOMAIN m.inode_to_id
    THEN LET existing_id == m.inode_to_id[meta.ino]
             m1 == IF existing_id \in DOMAIN m.id_to_path
                   THEN [m EXCEPT !.id_to_path[existing_id].fsmeta =
                                      metadata_to_fattr3(existing_id, meta),
                                  !.id_to_path[existing_id].aliases = @ \cup {fullpath}]
                   ELSE m
         IN  [id |-> existing_id,
              m |-> [m1 EXCEPT !.path_to_id = MapInsert(@, fullpath, existing_id),
                               !.id_to_inode = IF existing_id \in DOMAIN @ THEN @
                                               ELSE MapInsert(@, existing_id, meta.ino)]]
    ELSE LET next_id == CHOOSE f \in 1..m.next_fileid :
                            /\ f \notin DOMAIN m.id_to_path
                            /\ \A g \in 1..(f - 1) : g \in DOMAIN m.id_to_path
         IN  [id |-> next_id,
              m |-> [m EXCEPT !.next_fileid = Max(@, next_id + 1),
                              !.id_to_path = MapInsert(@, next_id,
                                  FSEntryNew(fullpath, metadata_to_fattr3(next_id, meta))),
                              !.path_to_id = MapInsert(@, fullpath, next_id),
                              !.inode_to_id = MapInsert(@, meta.ino, next_id),
                              !.id_to_inode = MapInsert(@, next_id, meta.ino)]]

\* create_entry: the FileId returned and the map left
create_entry(m, fullpath, meta) ==
    IF fullpath \in DOMAIN m.path_to_id
    THEN LET chid == m.path_to_id[fullpath]
         IN  [id |-> chid,
              m |-> IF chid \in DOMAIN m.id_to_path
                    THEN [m EXCEPT !.id_to_path[chid].fsmeta = metadata_to_fattr3(chid, meta)]
                    ELSE m]
    ELSE IF meta.ino \in DOMAIN m.inode_to_id
    THEN LET existing_id == m.inode_to_id[meta.ino]
             m1 == IF existing_id \in DOMAIN m.id_to_path
                   THEN [m EXCEPT !.id_to_path[existing_id].fsmeta =
                                      metadata_to_fattr3(existing_id, meta),
                                  !.id_to_path[existing_id].aliases = @ \cup {fullpath}]
                   ELSE m
         IN  [id |-> existing_id,
              m |-> [m1 EXCEPT !.path_to_id = MapInsert(@, fullpath, existing_id),
                               !.id_to_inode = IF existing_id \in DOMAIN @ THEN @
                                               ELSE MapInsert(@, existing_id, meta.ino)]]
    ELSE LET next_id == m.next_fileid
         IN  [id |-> next_id,
              m |-> [m EXCEPT !.next_fileid = @ + 1,
                              !.id_to_path = MapInsert(@, next_id,
                                  FSEntryNew(fullpath, metadata_to_fattr3(next_id, meta))),
                              !.path_to_id = MapInsert(@, fullpath, next_id),
                              !.inode_to_id = MapInsert(@, meta.ino, next_id),
                              !.id_to_inode = MapInsert(@, next_id, meta.ino)]]

refresh_entry_existingMutantReloadKeepsMeta(m1, paths, inodes, id, entry, existing) ==
    LET primary == MinPath(existing)
        m2 == [m1 EXCEPT !.id_to_path[id].aliases = existing,
                         !.id_to_path[id].name = primary]
        path == sym_to_path(m1.intern, primary)
    IN  IF ~HostExists(paths, path) THEN [m |-> m2, result |-> "NFS3ERR_IO"]
        ELSE LET meta == HostStat(paths, inodes, path)
                 m3 == [m2 EXCEPT !.id_to_inode = MapInsert(@, id, meta.ino),
                                  !.inode_to_id = MapInsert(@, meta.ino, id)]
                 fattr == metadata_to_fattr3(id, meta)
             IN  IF id \notin DOMAIN m2.id_to_inode \/ m2.id_to_inode[id] # meta.ino
                 THEN [m |-> delete_entry(m2, id), result |-> "Delete"]
                 ELSE IF ~fattr3_differ(fattr, entry.fsmeta)
                 THEN [m |-> m3, result |-> "Noop"]
                 ELSE IF entry.fsmeta.ftype # fattr.ftype
                 THEN [m |-> delete_entry(m3, id), result |-> "Delete"]
                 ELSE [m |-> m3, result |-> "Reload"]

\* the outcome of refresh_entry for an entry whose aliases `existing` are on the host
refresh_entry_existing(m1, paths, inodes, id, entry, existing) ==
    LET primary == MinPath(existing)
        m2 == [m1 EXCEPT !.id_to_path[id].aliases = existing,
                         !.id_to_path[id].name = primary]
        path == sym_to_path(m1.intern, primary)
    IN  IF ~HostExists(paths, path) THEN [m |-> m2, result |-> "NFS3ERR_IO"]
        ELSE LET meta == HostStat(paths, inodes, path)
                 m3 == [m2 EXCEPT !.id_to_inode = MapInsert(@, id, meta.ino),
                                  !.inode_to_id = MapInsert(@, meta.ino, id)]
                 fattr == metadata_to_fattr3(id, meta)
             IN  IF id \notin DOMAIN m2.id_to_inode \/ m2.id_to_inode[id] # meta.ino
                 THEN [m |-> delete_entry(m2, id), result |-> "Delete"]
                 ELSE IF ~fattr3_differ(fattr, entry.fsmeta)
                 THEN [m |-> m3, result |-> "Noop"]
                 ELSE IF entry.fsmeta.ftype # fattr.ftype
                 THEN [m |-> delete_entry(m3, id), result |-> "Delete"]
                 ELSE [m |-> [m3 EXCEPT !.id_to_path[id].fsmeta = fattr],
                       result |-> "Reload"]

refresh_entryMutantNoExistsCheck(m, paths, inodes, id) ==
    IF id \notin DOMAIN m.id_to_path THEN [m |-> m, result |-> "NFS3ERR_NOENT"]
    ELSE refresh_entry_existing(m, paths, inodes, id, m.id_to_path[id],
                                m.id_to_path[id].aliases)

\* refresh_entry: the map left and Noop, Reload, Delete or the error
refresh_entry(m, paths, inodes, id) ==
    IF id \notin DOMAIN m.id_to_path THEN [m |-> m, result |-> "NFS3ERR_NOENT"]
    ELSE LET entry == m.id_to_path[id]
             existing == {a \in entry.aliases :
                            exists_no_traverse(paths, sym_to_path(m.intern, a))}
             m1 == [m EXCEPT !.path_to_id =
                        MapRestrict(@, (DOMAIN @) \ (entry.aliases \ existing))]
         IN  IF existing = {}
             THEN [m |-> delete_entry(m1, id), result |-> "Delete"]
             ELSE refresh_entry_existing(m1, paths, inodes, id, entry, existing)

RECURSIVE ListEntries(_, _, _, _, _, _)
\* the loop of refresh_dir_list over the listing, in the order read_dir yields it
ListEntries(m, paths, inodes, dir_name, order, new_children) ==
    IF order = <<>> THEN [m |-> m, new_children |-> new_children]
    ELSE LET n == Head(order)
             table == intern(m.intern, n)
             sym == check_interned(table, n)
             meta == HostStat(paths, inodes, Append(sym_to_path(m.intern, dir_name), n))
             r == create_entry([m EXCEPT !.intern = table], Append(dir_name, sym), meta)
         IN  ListEntries(r.m, paths, inodes, dir_name, Tail(order),
                         MapInsert(new_children, sym, r.id))

RECURSIVE RemovePaths(_, _, _)
\* remove_path for each of the names, in the children map's order
RemovePaths(m, dir_name, syms) ==
    IF syms = <<>> THEN m
    ELSE RemovePaths(remove_path(m, Append(dir_name, Head(syms))), dir_name, Tail(syms))

\* refresh_dir_list after the loop over the listing: the old children that were not
\* listed are removed and the new children stored
RelistDone(m, id, entry, new_children) ==
    LET gone == IF entry.children.some
                THEN (DOMAIN entry.children.map) \ (DOMAIN new_children)
                ELSE {}
        m1 == RemovePaths(m, entry.name, SortedKeys(gone))
    IN  [m |-> IF id \in DOMAIN m1.id_to_path
               THEN [m1 EXCEPT !.id_to_path[id].children = SomeChildren(new_children),
                               !.id_to_path[id].children_meta = m1.id_to_path[id].fsmeta]
               ELSE m1,
         result |-> "Ok"]

\* refresh_dir_list from the read_dir on
RelistDir(m, paths, inodes, id, entry, order) ==
    IF ~HostReadDirOk(paths, inodes, sym_to_path(m.intern, entry.name))
    THEN [m |-> m, result |-> "Ok"]
    ELSE LET listed == ListEntries(m, paths, inodes, entry.name, order, EmptyMap)
         IN  RelistDone(listed.m, id, entry, listed.new_children)

refresh_dir_listMutantNoPrune(m, paths, inodes, id, order) ==
    IF id \notin DOMAIN m.id_to_path THEN [m |-> m, result |-> "NFS3ERR_NOENT"]
    ELSE LET entry == m.id_to_path[id]
         IN  IF entry.children.some /\ ~fattr3_differ(entry.children_meta, entry.fsmeta)
             THEN [m |-> m, result |-> "Ok"]
             ELSE IF ~is_directory(entry) THEN [m |-> m, result |-> "Ok"]
             ELSE RelistDir(m, paths, inodes, id,
                            [entry EXCEPT !.children = NoChildren], order)

\* refresh_dir_list: the map left and the result
refresh_dir_list(m, paths, inodes, id, order) ==
    IF id \notin DOMAIN m.id_to_path THEN [m |-> m, result |-> "NFS3ERR_NOENT"]
    ELSE LET entry == m.id_to_path[id]
         IN  IF entry.children.some /\ ~fattr3_differ(entry.children_meta, entry.fsmeta)
             THEN [m |-> m, result |-> "Ok"]
             ELSE IF ~is_directory(entry) THEN [m |-> m, result |-> "Ok"]
             ELSE RelistDir(m, paths, inodes, id, entry, order)

\* find_entry
find_entry(m, id) ==
    IF id \in DOMAIN m.id_to_path
    THEN [result |-> "Ok", entry |-> m.id_to_path[id]]
    ELSE [result |-> "NFS3ERR_NOENT", entry |-> None]

find_childMutantInterns(m, id, filename) ==
    IF id \notin DOMAIN m.id_to_path THEN [result |-> "NFS3ERR_NOENT", id |-> 0, m |-> m]
    ELSE LET table == intern(m.intern, filename)
             name == Append(m.id_to_path[id].name, check_interned(table, filename))
             m1 == [m EXCEPT !.intern = table]
         IN  IF name \in DOMAIN m.path_to_id
             THEN [result |-> "Ok", id |-> m.path_to_id[name], m |-> m1]
             ELSE [result |-> "NFS3ERR_NOENT", id |-> 0, m |-> m1]

\* find_child: the answer, and the map the call leaves (it takes `&self`)
find_child(m, id, filename) ==
    IF id \notin DOMAIN m.id_to_path THEN [result |-> "NFS3ERR_NOENT", id |-> 0, m |-> m]
    ELSE IF check_interned(m.intern, filename) = 0
    THEN [result |-> "NFS3ERR_NOENT", id |-> 0, m |-> m]
    ELSE LET name == Append(m.id_to_path[id].name, check_interned(m.intern, filename))
         IN  IF name \in DOMAIN m.path_to_id
             THEN [result |-> "Ok", id |-> m.path_to_id[name], m |-> m]
             ELSE [result |-> "NFS3ERR_NOENT", id |-> 0, m |-> m]

(***************************************************************************)
(* MirrorFS::lookup, after sections 4.2 and 7 of the specification: list   *)
(* the parent when its cached children lack the name, find the child,      *)
(* validate it against the host with refresh_entry, and when the cached    *)
(* child turns out stale list the parent again and find the child anew.    *)
(***************************************************************************)
ChildCached(m, parent, filename) ==
    /\ parent \in DOMAIN m.id_to_path
    /\ m.id_to_path[parent].children.some
    /\ check_interned(m.intern, filename) \in DOMAIN m.id_to_path[parent].children.map

LookupRevalidate(m, paths, inodes, parent, filename, order, found) ==
    LET r2 == refresh_entry(m, paths, inodes, found)
        c2 == find_child(r2.m, parent, filename)
    IN  IF r2.result \in {"NFS3ERR_NOENT", "NFS3ERR_IO"}
        THEN [m |-> r2.m, result |-> r2.result, id |-> 0]
        ELSE IF r2.result # "Delete" /\ c2.result = "Ok" /\ c2.id = found
        THEN [m |-> r2.m, result |-> "Ok", id |-> found]
        ELSE LET r3 == refresh_dir_list(r2.m, paths, inodes, parent, order)
                 c3 == find_child(r3.m, parent, filename)
             IN  IF r3.result # "Ok" THEN [m |-> r3.m, result |-> r3.result, id |-> 0]
                 ELSE [m |-> r3.m, result |-> c3.result, id |-> c3.id]

lookup(m, paths, inodes, parent, filename, order) ==
    IF parent \notin DOMAIN m.id_to_path
    THEN [m |-> m, result |-> "NFS3ERR_NOENT", id |-> 0]
    ELSE LET r1 == IF ChildCached(m, parent, filename) THEN [m |-> m, result |-> "Ok"]
                   ELSE refresh_dir_list(m, paths, inodes, parent, order)
             c1 == find_child(r1.m, parent, filename)
         IN  IF r1.result # "Ok" THEN [m |-> r1.m, result |-> r1.result, id |-> 0]
             ELSE IF c1.result # "Ok" THEN [m |-> r1.m, result |-> c1.result, id |-> 0]
             ELSE LookupRevalidate(r1.m, paths, inodes, parent, filename, order, c1.id)

(***************************************************************************)
(* MirrorFS::readdir, after section 4.2 of the specification and the       *)
(* regression tests: bring the directory's listing up to date with         *)
(* refresh_dir_list, then emit "." (id = dir), ".." (id = parent, or dir   *)
(* for the root) and the children in the child map's order, from ordinal   *)
(* `cookie` on, at most max_entries of them. The specification does not    *)
(* say whether the directory's own entry is validated with refresh_entry   *)
(* first, as getattr does: `revalidate` covers both.                       *)
(***************************************************************************)
DirEntry(kind, sym, name, id) == [kind |-> kind, sym |-> sym, name |-> name, id |-> id]

\* the whole listing of a directory entry, synthetic entries first
readdir_all(m, dirid, entry) ==
    LET dotdot == IF entry.name = <<>> THEN dirid
                  ELSE IF Parent(entry.name) \in DOMAIN m.path_to_id
                  THEN m.path_to_id[Parent(entry.name)]
                  ELSE dirid
        kids == ChildSeq(entry.children)
    IN  <<DirEntry("dot", 0, 0, dirid), DirEntry("dotdot", 0, 0, dotdot)>>
            \o [i \in DOMAIN kids |->
                   DirEntry("child", kids[i][1], m.intern[kids[i][1]], kids[i][2])]

ReaddirError(m, result) == [m |-> m, result |-> result, entries |-> <<>>, end |-> FALSE]

\* the emission, from what refresh_dir_list left
readdir_emit(r1, dirid, cookie, max_entries) ==
    IF r1.result # "Ok" THEN ReaddirError(r1.m, r1.result)
    ELSE IF dirid \notin DOMAIN r1.m.id_to_path THEN ReaddirError(r1.m, "NFS3ERR_NOENT")
    ELSE IF ~is_directory(r1.m.id_to_path[dirid]) THEN ReaddirError(r1.m, "NFS3ERR_NOTDIR")
    ELSE IF ~r1.m.id_to_path[dirid].children.some THEN ReaddirError(r1.m, "NFS3ERR_IO")
    ELSE LET all == readdir_all(r1.m, dirid, r1.m.id_to_path[dirid])
             upto == IF cookie + max_entries < Len(all) THEN cookie + max_entries
                     ELSE Len(all)
         IN  [m |-> r1.m, result |-> "Ok",
              entries |-> SubSeq(all, cookie + 1, upto),
              end |-> cookie + max_entries >= Len(all)]

\* the listing, from what the validation of the directory's entry left
readdir_listed(r0, paths, inodes, dirid, cookie, max_entries, order) ==
    IF r0.result \in {"NFS3ERR_NOENT", "NFS3ERR_IO"} THEN ReaddirError(r0.m, r0.result)
    ELSE IF r0.result = "Delete" THEN ReaddirError(r0.m, "NFS3ERR_NOENT")
    ELSE readdir_emit(refresh_dir_list(r0.m, paths, inodes, dirid, order),
                      dirid, cookie, max_entries)

readdir(m, paths, inodes, dirid, cookie, max_entries, order, revalidate) ==
    readdir_listed(IF revalidate THEN refresh_entry(m, paths, inodes, dirid)
                   ELSE [m |-> m, result |-> "Noop"],
                   paths, inodes, dirid, cookie, max_entries, order)

(***************************************************************************)
(* The state machine of the identity map.                                  *)
(***************************************************************************)
NoFsOp == [op |-> "none", id |-> 0, name |-> 0, from |-> <<>>, to |-> <<>>,
           result |-> "none", rid |-> 0, note |-> None]

FsOp(op, id, name, from, to, result, rid, note) ==
    [op |-> op, id |-> id, name |-> name, from |-> from, to |-> to,
     result |-> result, rid |-> rid, note |-> note]

\* FSMap::new over an exported directory
FSMapNew ==
    [next_fileid |-> FirstFileId,
     intern |-> <<>>,
     id_to_path |-> MapInsert(EmptyMap, RootId,
                        FSEntryNew(<<>>, metadata_to_fattr3(1,
                            [ino |-> RootIno, ftype |-> "NF3DIR", ver |-> 0]))),
     path_to_id |-> MapInsert(EmptyMap, <<>>, RootId),
     inode_to_id |-> MapInsert(EmptyMap, RootIno, RootId),
     id_to_inode |-> MapInsert(EmptyMap, RootId, RootIno),
     aborted |-> FALSE]

FsInit ==
    /\ hostPaths = EmptyMap
    /\ hostInodes = MapInsert(EmptyMap, RootIno,
                               [ftype |-> "NF3DIR", ver |-> 0, readable |-> TRUE])
    /\ fsmap = FSMapNew
    /\ fsLast = NoFsOp
    /\ hostSeen = [names |-> 0, inodes |-> 0]
    /\ mapRenames = "none"
    /\ hostSteps = 0
    /\ mapSteps = 0

\* an out-of-band step is counted and forgets the last FSMap operation
HostStep ==
    /\ hostSteps < MaxHostSteps
    /\ hostSteps' = hostSteps + 1
    /\ fsLast' = NoFsOp
    /\ UNCHANGED <<fsmap, mapRenames, mapSteps>>
    /\ UNCHANGED <<trackerVars, dispatchVars, awaitVars>>

HostInodesInUse(paths) == {RootIno} \cup {paths[p] : p \in DOMAIN paths}

\* a name or an inode number new to the host is the next in the numbering
HostUses(name, ino) ==
    /\ name <= hostSeen.names + 1
    /\ ino <= hostSeen.inodes + 1
    /\ hostSeen' = [names |-> Max(hostSeen.names, name), inodes |-> Max(hostSeen.inodes, ino)]

\* out of band: a file or directory is created (the inode number may be one used before)
HostCreate(p, ino, ftype) ==
    /\ p # <<>> /\ p \notin DOMAIN hostPaths
    /\ HostReadDirOk(hostPaths, hostInodes, Parent(p))
    /\ ino \notin HostInodesInUse(hostPaths)
    /\ HostUses(p[Len(p)], ino)
    /\ hostPaths' = MapInsert(hostPaths, p, ino)
    /\ hostInodes' = MapInsert(hostInodes, ino,
                                [ftype |-> ftype, ver |-> 0, readable |-> TRUE])
    /\ HostStep

\* out of band: a hard link to a regular file
HostLink(src, dst) ==
    /\ src \in DOMAIN hostPaths /\ hostInodes[hostPaths[src]].ftype = "NF3REG"
    /\ dst # <<>> /\ dst \notin DOMAIN hostPaths
    /\ HostReadDirOk(hostPaths, hostInodes, Parent(dst))
    /\ HostUses(dst[Len(dst)], hostPaths[src])
    /\ hostPaths' = MapInsert(hostPaths, dst, hostPaths[src])
    /\ HostStep
    /\ UNCHANGED hostInodes

\* out of band: a file or an empty directory is removed
HostUnlink(p) ==
    /\ p \in DOMAIN hostPaths
    /\ HostReadDirOk(hostPaths, hostInodes, Parent(p))
    /\ \A q \in DOMAIN hostPaths : IsPrefix(p, q) => q = p
    /\ hostPaths' = MapRemove(hostPaths, p)
    /\ hostInodes' = MapRestrict(hostInodes, HostInodesInUse(hostPaths'))
    /\ HostStep
    /\ UNCHANGED hostSeen

\* out of band: the attributes of an inode change
HostTouch(ino, ver) ==
    /\ ino \in DOMAIN hostInodes
    /\ ver # hostInodes[ino].ver
    /\ hostInodes' = [hostInodes EXCEPT ![ino].ver = ver]
    /\ HostStep
    /\ UNCHANGED <<hostPaths, hostSeen>>

\* out of band: chmod of a directory to 000 or back; a directory that holds a
\* directory is left alone, so that every path the map may stat stays reachable
HostChmod(ino, ver) ==
    /\ ino \in DOMAIN hostInodes
    /\ hostInodes[ino].ftype = "NF3DIR"
    /\ ver # hostInodes[ino].ver
    /\ \A p \in DOMAIN hostPaths :
          HostIno(hostPaths, Parent(p)) = ino => hostInodes[hostPaths[p]].ftype # "NF3DIR"
    /\ hostInodes' = [hostInodes EXCEPT ![ino].ver = ver, ![ino].readable = ~@]
    /\ HostStep
    /\ UNCHANGED <<hostPaths, hostSeen>>

\* an FSMap operation ends: with the map it leaves, or with the process aborted
FsReturn(m, done) ==
    /\ mapSteps < MaxMapSteps
    /\ mapSteps' = mapSteps + 1
    /\ m.next_fileid <= MaxFileId + 1
    /\ IF m.aborted
       THEN /\ fsmap' = [fsmap EXCEPT !.aborted = TRUE]
            /\ fsLast' = [done EXCEPT !.result = "abort"]
       ELSE /\ fsmap' = m
            /\ fsLast' = done
    /\ mapRenames' = IF done.op # "rename_path_prefix" \/ done.from = done.to
                         \/ done.note.moved = 0
                     THEN mapRenames
                     ELSE IF ~done.note.free THEN "over"
                     ELSE IF mapRenames = "none" THEN "moved"
                     ELSE mapRenames
    /\ UNCHANGED <<hostPaths, hostInodes, hostSeen, hostSteps>>
    /\ UNCHANGED <<trackerVars, dispatchVars, awaitVars>>

\* the FileIds a caller may hold: those the map mentions, and one it never allocated
HeldIds(m) ==
    (DOMAIN m.id_to_path) \cup (DOMAIN m.id_to_inode)
        \cup {m.path_to_id[x] : x \in DOMAIN m.path_to_id}
        \cup {m.inode_to_id[x] : x \in DOMAIN m.inode_to_id}
        \cup {m.next_fileid}

SymPathSet(m) == SeqsUpTo(1..Len(m.intern), MaxDepth)

\* the orders in which read_dir may yield the listing of an entry's directory
ListingOrders(m, id) ==
    IF id \in DOMAIN m.id_to_path
    THEN Perms(HostListing(hostPaths, sym_to_path(m.intern, m.id_to_path[id].name)))
    ELSE {<<>>}

\* a caller (create, mkdir, link) that made `filename` in a directory on the host:
\* it interns the name, stats the path and calls create_entry
CreateEntry(parent, filename) ==
    /\ ~fsmap.aborted
    /\ parent \in DOMAIN fsmap.id_to_path
    /\ LET dir == fsmap.id_to_path[parent].name
           path == Append(sym_to_path(fsmap.intern, dir), filename)
           table == intern(fsmap.intern, filename)
           fullpath == Append(dir, check_interned(table, filename))
       IN  /\ Len(path) <= MaxDepth
           /\ HostExists(hostPaths, path)
           /\ LET r == create_entry([fsmap EXCEPT !.intern = table], fullpath,
                                    HostStat(hostPaths, hostInodes, path))
              IN  FsReturn(r.m, FsOp("create_entry", parent, filename, <<>>, fullpath, "Ok",
                                     r.id,
                                     [known |-> fullpath \in DOMAIN fsmap.path_to_id,
                                      inode_known |-> HostIno(hostPaths, path)
                                                        \in DOMAIN fsmap.inode_to_id]))

RemovePath(path) ==
    /\ ~fsmap.aborted
    /\ path \in SymPathSet(fsmap) \ {<<>>}
    /\ FsReturn(remove_path(fsmap, path),
                FsOp("remove_path", 0, 0, path, <<>>, "Ok", 0,
                     LET known == /\ path \in DOMAIN fsmap.path_to_id
                                  /\ fsmap.path_to_id[path] \in DOMAIN fsmap.id_to_path
                     IN  [known |-> known,
                          primary |-> known /\ fsmap.id_to_path[fsmap.path_to_id[path]].name
                                                  = path,
                          others |-> IF known
                                     THEN Cardinality(
                                            fsmap.id_to_path[fsmap.path_to_id[path]].aliases
                                                \ {path})
                                     ELSE 0]))

RemovePathTree(path) ==
    /\ ~fsmap.aborted
    /\ path \in (DOMAIN fsmap.path_to_id) \ {<<>>}
    /\ FsReturn(remove_path_tree(fsmap, path, fsmap.path_to_id[path], 1),
                FsOp("remove_path_tree", fsmap.path_to_id[path], 0, path, <<>>, "Ok", 0,
                     None))

DeleteEntry(id) ==
    /\ ~fsmap.aborted
    /\ id \in HeldIds(fsmap) \ {RootId}
    /\ FsReturn(delete_entry(fsmap, id),
                FsOp("delete_entry", id, 0, <<>>, <<>>, "Ok", 0, None))

\* the precondition of the rename claim: `to` is not under `from` and the map knows
\* no path at or under `to`
RenameTargetFree(m, from, to) ==
    /\ ~IsPrefix(from, to)
    /\ \A p \in DOMAIN m.path_to_id : ~IsPrefix(to, p)

\* a caller (rename) after a host rename of `from` to `to`: neither path is inside
\* the other
RenamePathPrefix(from, to) ==
    /\ ~fsmap.aborted
    /\ from \in SymPathSet(fsmap) \ {<<>>}
    /\ to \in SymPathSet(fsmap) \ {<<>>}
    /\ from = to \/ (~IsPrefix(from, to) /\ ~IsPrefix(to, from))
    /\ \A p \in DOMAIN fsmap.path_to_id :
          IsPrefix(from, p) => Len(Reprefix(p, from, to)) <= MaxDepth
    /\ FsReturn(rename_path_prefix(fsmap, from, to),
                FsOp("rename_path_prefix", 0, 0, from, to, "Ok", 0,
                     [free |-> RenameTargetFree(fsmap, from, to),
                      moved |-> Cardinality({p \in DOMAIN fsmap.path_to_id :
                                               IsPrefix(from, p)})]))

RefreshEntry(id) ==
    /\ ~fsmap.aborted
    /\ id \in HeldIds(fsmap)
    /\ LET r == refresh_entry(fsmap, hostPaths, hostInodes, id)
           \* what the refresh_entry of the same id just before, if any, returned
           prev == IF fsLast.op = "refresh_entry" /\ fsLast.id = id THEN fsLast.result
                   ELSE "none"
       IN  FsReturn(r.m, FsOp("refresh_entry", id, 0, <<>>, <<>>, r.result, 0,
                              [prev |-> prev]))

RefreshDirList(id) ==
    /\ ~fsmap.aborted
    /\ id \in HeldIds(fsmap)
    /\ \E order \in ListingOrders(fsmap, id) :
          LET r == refresh_dir_list(fsmap, hostPaths, hostInodes, id, order)
          IN  FsReturn(r.m, FsOp("refresh_dir_list", id, 0, <<>>, <<>>, r.result, 0,
                                 None))

\* what a lookup of `filename` in `parent` starts from: the host path asked for, the
\* FileId the map has for it (-1: none), whether the parent's children hold the name,
\* whether the host path is gone, and whether it is now another inode than the cached
LookupCase(m, paths, parent, filename) ==
    IF parent \notin DOMAIN m.id_to_path
    THEN [path |-> <<>>, was |-> -1, cached |-> FALSE, gone |-> FALSE, replaced |-> FALSE]
    ELSE
    LET dir == m.id_to_path[parent].name
        sym == check_interned(m.intern, filename)
        path == Append(sym_to_path(m.intern, dir), filename)
        was == IF sym # 0 /\ Append(dir, sym) \in DOMAIN m.path_to_id
               THEN m.path_to_id[Append(dir, sym)] ELSE -1
    IN  [path |-> path, was |-> was,
         cached |-> ChildCached(m, parent, filename),
         gone |-> ~HostExists(paths, path),
         replaced |-> /\ was \in DOMAIN m.id_to_inode
                      /\ HostExists(paths, path)
                      /\ HostIno(paths, path) # m.id_to_inode[was]]

Lookup(parent, filename) ==
    /\ ~fsmap.aborted
    /\ parent \in HeldIds(fsmap)
    /\ \E order \in ListingOrders(fsmap, parent) :
          LET r == lookup(fsmap, hostPaths, hostInodes, parent, filename, order)
          IN  FsReturn(r.m, FsOp("lookup", parent, filename, <<>>, <<>>, r.result, r.id,
                                 LookupCase(fsmap, hostPaths, parent, filename)))

\* a pagination goes on where the last readdir of the directory stopped, when
\* nothing happened since; any readdir may start one at cookie 0
ReaddirCookies(dir, revalidate) ==
    {0} \cup IF /\ fsLast.op = "readdir" /\ fsLast.id = dir /\ fsLast.result = "Ok"
                /\ ~fsLast.note.end /\ fsLast.note.revalidate = revalidate
             THEN {fsLast.note.cookie + Len(fsLast.note.entries)}
             ELSE {}

\* what a readdir call was given and gave: `seen` is all the pagination returned
\* since cookie 0, `ones` whether each of its calls asked for one entry, `cached`
\* whether the directory had a listing before the call, `unreadable` whether the
\* host directory cannot be opened
ReaddirNote(m, dir, cookie, max_entries, revalidate, r) ==
    LET known == dir \in DOMAIN m.id_to_path
        path == IF known THEN sym_to_path(m.intern, m.id_to_path[dir].name) ELSE <<>>
    IN  [cookie |-> cookie, count |-> max_entries, revalidate |-> revalidate,
         entries |-> r.entries, end |-> r.end,
         seen |-> IF cookie = 0 THEN r.entries ELSE fsLast.note.seen \o r.entries,
         ones |-> max_entries = 1 /\ (cookie = 0 \/ fsLast.note.ones),
         cached |-> known /\ m.id_to_path[dir].children.some,
         unreadable |-> /\ known
                        /\ HostIsDir(hostPaths, hostInodes, path)
                        /\ ~HostReadDirOk(hostPaths, hostInodes, path)]

\* a readdir call ends: with the map it leaves, or with the process aborted
ReaddirReturn(dir, r, note) ==
    /\ r.m.next_fileid <= MaxFileId + 1
    /\ IF r.m.aborted
       THEN /\ fsmap' = [fsmap EXCEPT !.aborted = TRUE]
            /\ fsLast' = FsOp("readdir", dir, 0, <<>>, <<>>, "abort", 0, note)
       ELSE /\ fsmap' = r.m
            /\ fsLast' = FsOp("readdir", dir, 0, <<>>, <<>>, r.result, 0, note)
    /\ mapSteps' = mapSteps + 1
    /\ UNCHANGED <<hostPaths, hostInodes, hostSeen, hostSteps, mapRenames>>
    /\ UNCHANGED <<trackerVars, dispatchVars, awaitVars>>

\* the note of a readdir call and its end
ReaddirDone(dir, cookie, max_entries, revalidate, r) ==
    ReaddirReturn(dir, r, ReaddirNote(fsmap, dir, cookie, max_entries, revalidate, r))

\* MirrorFS::readdir of a directory no unreadable directory hides from the server
Readdir(dir, max_entries, revalidate) ==
    /\ ~fsmap.aborted
    /\ dir \in HeldIds(fsmap)
    /\ mapSteps < MaxReaddirCalls
    /\ dir \in DOMAIN fsmap.id_to_path =>
          LET path == sym_to_path(fsmap.intern, fsmap.id_to_path[dir].name)
          IN  \A i \in 0..(Len(path) - 1) :
                 HostExists(hostPaths, SubSeq(path, 1, i)) =>
                     hostInodes[HostIno(hostPaths, SubSeq(path, 1, i))].readable
    /\ \E order \in ListingOrders(fsmap, dir), cookie \in ReaddirCookies(dir, revalidate) :
          ReaddirDone(dir, cookie, max_entries, revalidate,
                      readdir(fsmap, hostPaths, hostInodes, dir, cookie, max_entries, order,
                              revalidate))

FsNext ==
    \/ \E p \in HostPathSet, ino \in Inodes, ftype \in FileTypes : HostCreate(p, ino, ftype)
    \/ \E src, dst \in HostPathSet : HostLink(src, dst)
    \/ \E p \in HostPathSet : HostUnlink(p)
    \/ \E ino \in Inodes \cup {RootIno}, ver \in 0..MaxVersion : HostTouch(ino, ver)
    \/ \E parent \in 0..MaxFileId, filename \in Names : CreateEntry(parent, filename)
    \/ \E path \in SeqsUpTo(1..NumNames, MaxDepth) : RemovePath(path)
    \/ \E path \in SeqsUpTo(1..NumNames, MaxDepth) : RemovePathTree(path)
    \/ \E id \in 1..(MaxFileId + 1) : DeleteEntry(id)
    \/ \E from, to \in SeqsUpTo(1..NumNames, MaxDepth) : RenamePathPrefix(from, to)
    \/ \E id \in 0..(MaxFileId + 1) : RefreshEntry(id)
    \/ \E id \in 0..(MaxFileId + 1) : RefreshDirList(id)
    \/ \E parent \in 0..(MaxFileId + 1), filename \in Names : Lookup(parent, filename)

(***************************************************************************)
(* The specifications: each subsystem runs while the other rests in its    *)
(* initial state; the map is driven by its own operations or by readdir.   *)
(***************************************************************************)
vars == <<trackerVars, fsVars, dispatchVars, awaitVars>>

\* a task outside any FSMap operation
IdleTask == [pc |-> "idle", id |-> 0, entry |-> None, existing |-> {}, rest |-> <<>>,
             new_children |-> EmptyMap]

\* no task is inside an FSMap operation
AwaitIdle == mapOwner = 0 /\ mapTask = [t \in Tasks |-> IdleTask]

\* no call to the dispatch surface
DispatchIdle == call = None /\ ret = None

\* trackers of every retention period, over a freshly built map
InitTracker == TrackerInit /\ FsInit /\ DispatchIdle /\ AwaitIdle

\* a freshly built map, beside a fresh tracker with a retention period of one second
InitFS == FsInit /\ TrackerInit /\ retention_period = OneSecond /\ DispatchIdle
            /\ AwaitIdle

SpecTracker == InitTracker /\ [][TrackerNext]_vars

SpecFS == InitFS /\ [][FsNext]_vars

\* the map as MirrorFS::readdir drives it, over a host that changes out of band
ReaddirNext ==
    \/ \E p \in HostPathSet, ino \in Inodes, ftype \in FileTypes : HostCreate(p, ino, ftype)
    \/ \E src, dst \in HostPathSet : HostLink(src, dst)
    \/ \E p \in HostPathSet : HostUnlink(p)
    \/ \E ino \in Inodes \cup {RootIno}, ver \in 0..MaxVersion : HostTouch(ino, ver)
    \/ \E ino \in Inodes \cup {RootIno}, ver \in 0..MaxVersion : HostChmod(ino, ver)
    \/ \E dir \in 0..(MaxFileId + 1), max_entries \in 1..MaxEntries, revalidate \in BOOLEAN :
          Readdir(dir, max_entries, revalidate)

SpecReaddir == InitFS /\ [][ReaddirNext]_vars

(***************************************************************************)
(* Claims about the transaction tracker.                                   *)
(***************************************************************************)

\* C1: at-most-once. A check of a key returns New only if no earlier check of the
\* key returned New, or the key was cleared since, or a housekeeping sweep (this
\* check's own included) evicted its Completed entry more than the retention
\* period after its completion_time.
C1_AtMostOnce ==
    last.status = "New" => ~last.armed

\* a second New for a key, let through by this check's own sweep
C1_Witness ==
    last.status = "New" /\ last.armedBefore /\ last.swept

\* C2: while a call is in flight (a check returned New, no record_response or
\* clear of the key since) every check of the key returns InProgress, whatever
\* the time and however many sweeps ran.
C2_InFlightStaysInProgress ==
    (last.status # "none" /\ last.inflightSince >= 0) => last.status = "InProgress"

\* a retransmit of an in-flight call, checked with a sweep more than the
\* retention period after the call was first seen
C2_Witness ==
    /\ last.status = "InProgress"
    /\ last.swept
    /\ last.inflightSince >= 0
    /\ last.now - last.inflightSince > retention_period

\* C3 as stated: the first check after record_response(x, a, b) (no clear in
\* between) returns Completed with the bytes b.
C3_NextCheckReplays ==
    (last.status # "none" /\ last.recorded # None)
        => (last.status = "Completed" /\ last.response = last.recorded.response)

\* C3 as amended: the first check after record_response(x, a, b) returns
\* Completed with the bytes b unless a sweep read a clock more than the retention
\* period after the completion_time, and then it returns New.
C3_NextCheckReplaysWithinRetention ==
    (last.status # "none" /\ last.recorded # None)
        => IF last.recorded.expired
           THEN last.status = "New"
           ELSE last.status = "Completed" /\ last.response = last.recorded.response

\* a replay by a check that swept, exactly one retention period after the record
C3_Witness ==
    /\ last.status = "Completed"
    /\ last.recorded # None
    /\ last.swept
    /\ last.now - last.recorded.completion_time = retention_period

(***************************************************************************)
(* Claims about the identity map.                                          *)
(***************************************************************************)

\* C4: alias coherence. After every FSMap operation, with any out-of-band host
\* changes in between, every entry of id_to_path has its name among its aliases and
\* every alias a of the entry with FileId f has path_to_id[a] = f. Stated for the
\* callers that rename only onto paths the map does not know, as MirrorFS::rename
\* does by deleting the entry of a replaced target first.
C4_AliasCoherence ==
    mapRenames # "over" =>
    \A f \in DOMAIN fsmap.id_to_path :
        LET e == fsmap.id_to_path[f]
        IN  /\ e.name \in e.aliases
            /\ \A a \in e.aliases :
                  a \in DOMAIN fsmap.path_to_id /\ fsmap.path_to_id[a] = f

\* C5: inode bijection. After every FSMap operation every FileId f of id_to_path has
\* id_to_inode[f] with inode_to_id[id_to_inode[f]] = f, and no two distinct FileIds
\* have the same InodeKey.
C5_InodeBijection ==
    /\ \A f \in DOMAIN fsmap.id_to_path :
          /\ f \in DOMAIN fsmap.id_to_inode
          /\ fsmap.id_to_inode[f] \in DOMAIN fsmap.inode_to_id
          /\ fsmap.inode_to_id[fsmap.id_to_inode[f]] = f
    /\ \A f, g \in DOMAIN fsmap.id_to_inode :
          fsmap.id_to_inode[f] = fsmap.id_to_inode[g] => f = g

\* a remove_path has destroyed an entry and its inode mapping while other entries
\* than the root remain
C5_Witness ==
    /\ fsLast.op = "remove_path"
    /\ Cardinality(DOMAIN fsmap.id_to_path) >= 2
    /\ fsmap.next_fileid > Cardinality(DOMAIN fsmap.id_to_path)
    /\ Cardinality(DOMAIN fsmap.inode_to_id) = Cardinality(DOMAIN fsmap.id_to_path)

\* C6: refresh_dir_list(id) on a directory scans the host directory on every call,
\* also when children is populated and fsmeta equals children_meta: every name the
\* host directory holds is in children after the call.
C6_RefreshDirListRescans ==
    (/\ fsLast.op = "refresh_dir_list"
     /\ fsLast.result = "Ok"
     /\ fsLast.id \in DOMAIN fsmap.id_to_path
     /\ is_directory(fsmap.id_to_path[fsLast.id])
     /\ HostIsDir(hostPaths, hostInodes,
                  sym_to_path(fsmap.intern, fsmap.id_to_path[fsLast.id].name)))
        => LET e == fsmap.id_to_path[fsLast.id]
           IN  /\ e.children.some
               /\ \A n \in HostListing(hostPaths, sym_to_path(fsmap.intern, e.name)) :
                     check_interned(fsmap.intern, n) \in DOMAIN e.children.map

\* C7: when the file at a known path has been replaced out of band by another inode,
\* the next lookup(parent, name) succeeds with a FileId other than the one the path
\* had, and the attributes cached for the new FileId are those of the replacement.
\* Stated for maps no rename_path_prefix has moved a path in, where a cached inode
\* other than the host's can only come from a change on the host.
C7_LookupAfterReplace ==
    (/\ fsLast.op = "lookup"
     /\ mapRenames = "none"
     /\ fsLast.result # "abort"
     /\ fsLast.note.replaced)
        => /\ fsLast.result = "Ok"
           /\ fsLast.rid # fsLast.note.was
           /\ fsLast.rid \in DOMAIN fsmap.id_to_path
           /\ fsmap.id_to_path[fsLast.rid].fsmeta
                  = metadata_to_fattr3(fsLast.rid,
                        HostStat(hostPaths, hostInodes, fsLast.note.path))

C10_RenameFrameEffect ==
    [][(/\ fsLast'.op = "rename_path_prefix"
        /\ fsLast'.result = "Ok"
        /\ RenameTargetFree(fsmap, fsLast'.from, fsLast'.to))
          => LET from == fsLast'.from
                 to == fsLast'.to
             IN  /\ \A p \in DOMAIN fsmap.path_to_id :
                       LET q == IF IsPrefix(from, p) THEN Reprefix(p, from, to) ELSE p
                       IN  /\ q \in DOMAIN fsmap'.path_to_id
                           /\ fsmap'.path_to_id[q] = fsmap.path_to_id[p]
                 /\ \A q \in DOMAIN fsmap'.path_to_id : ~IsPrefix(from, q)
                 /\ Cardinality(DOMAIN fsmap'.path_to_id)
                        = Cardinality(DOMAIN fsmap.path_to_id)
                 /\ \A f \in DOMAIN fsmap'.id_to_path, n \in Names :
                       (/\ check_interned(fsmap'.intern, n) # 0
                        /\ Append(fsmap'.id_to_path[f].name,
                                  check_interned(fsmap'.intern, n)) = from)
                           => find_child(fsmap', f, n).result = "NFS3ERR_NOENT"
                 /\ DOMAIN fsmap'.id_to_path = DOMAIN fsmap.id_to_path
                 /\ fsmap'.id_to_inode = fsmap.id_to_inode
                 /\ fsmap'.inode_to_id = fsmap.inode_to_id
                 /\ fsmap'.next_fileid = fsmap.next_fileid]_vars

\* a rename onto a free target has moved a directory and a path below it
C10_Witness ==
    /\ fsLast.op = "rename_path_prefix"
    /\ fsLast.result = "Ok"
    /\ fsLast.note.free
    /\ fsLast.note.moved >= 2
    /\ fsLast.to \in DOMAIN fsmap.path_to_id

\* C11: every FileId f of id_to_path, the root 0 right after FSMap::new included,
\* has cached attributes whose fileid is f, so that getattr(f) reports fileid f.
C11_FsmetaFileId ==
    \A f \in DOMAIN fsmap.id_to_path : fsmap.id_to_path[f].fsmeta.fileid = f

(***************************************************************************)
(* Claims about readdir.                                                   *)
(***************************************************************************)

C13_UnreadableDirFails ==
    (/\ fsLast.op = "readdir"
     /\ fsLast.result # "abort"
     /\ fsLast.note.unreadable)
        => fsLast.result \in {"NFS3ERR_ACCES", "NFS3ERR_IO"}

(***************************************************************************)
(* Claims about retention in the transaction tracker. A step that ends a   *)
(* check is one that leaves a status in `last`; the store before the step  *)
(* is the store the check found.                                           *)
(***************************************************************************)
CheckResults == {"New", "InProgress", "Completed"}

\* C14: a cached response is replayed only within the retention window: a check
\* returns Completed only if its clock reading is at most the retention period
\* after the completion_time the entry had (set by record_response or by the last
\* replay).
C14_ReplayOnlyWithinRetention ==
    [][last'.status = "Completed"
          => last'.now - transactions[last'.key].completion_time <= retention_period]_vars

\* C14, amended: a check returns Completed only if its clock reading is at most the
\* retention period after the entry's completion_time, or the check ran no sweep
\* because less than the housekeeping interval had passed since the last one.
C14_ReplayWithinRetentionOrUnswept ==
    [][last'.status = "Completed"
          => \/ last'.now - transactions[last'.key].completion_time <= retention_period
             \/ /\ ~last'.swept
                /\ last'.now >= last_housekeeping
                /\ last'.now - last_housekeeping < housekeeping_interval]_vars

\* a check that ran no sweep has replayed a response recorded more than the
\* retention period before
C14_Witness ==
    /\ last.status = "Completed"
    /\ ~last.swept
    /\ last.recorded # None
    /\ last.now - last.recorded.completion_time > retention_period

\* C15: a sweep at `now` removes exactly the Completed entries with
\* completion_time < now - retention_period and leaves every other entry as it was.
\* For the key of the check that swept, the status returned tells whether its entry
\* was kept.
C15_SweepRemovesExactlyExpired ==
    [][(last'.status \in CheckResults /\ last'.swept)
          => LET now == last'.now
                 k == last'.key
                 kept(x) == /\ x \in DOMAIN transactions
                            /\ \/ transactions[x].state = "InProgress"
                               \/ transactions[x].completion_time >= now - retention_period
             IN  /\ \A x \in Keys \ {k} :
                       /\ x \in DOMAIN transactions' <=> kept(x)
                       /\ kept(x) => transactions'[x] = transactions[x]
                 /\ kept(k) <=> last'.status # "New"
                 /\ kept(k) => /\ last'.status = transactions[k].state
                               /\ transactions'[k].response = transactions[k].response]_vars

\* a sweep has evicted the expired reply of the key checked and kept the in-flight
\* entry of another key
C15_Witness ==
    /\ last.swept
    /\ last.status = "New"
    /\ last.recorded # None
    /\ last.recorded.expired
    /\ \E x \in DOMAIN transactions :
          x # last.key /\ transactions[x].state = "InProgress"

\* C16: a check that finds a Completed entry sets its completion_time to the check's
\* clock reading, so a Completed entry that is checked again within the retention
\* period of its completion_time is not evicted: while a check of the key that read
\* its clock at most the retention period after the entry's completion_time waits
\* for the mutex, no other check evicts the entry or changes its bytes.
C16_RecheckedNeverEvicted ==
    [][last'.status \in CheckResults
          => \A t \in Tasks, x \in DOMAIN transactions :
                (/\ transactions[x].state = "Completed"
                 /\ pending[t].op = "check"
                 /\ pending[t].key = x
                 /\ pending[t].now >= transactions[x].completion_time
                 /\ pending[t].now - transactions[x].completion_time <= retention_period)
                    => /\ x \in DOMAIN transactions'
                       /\ transactions'[x].state = "Completed"
                       /\ transactions'[x].response = transactions[x].response
                       /\ (pending'[t].op = "none" /\ last'.key = x)
                              => transactions'[x].completion_time = last'.now]_vars

\* C17: after clear(k), whatever the key's state was, the next check of k returns
\* New, and clear changes no other key. In steps: clear leaves k absent and the
\* entry of every other key as it was; an absent key stays absent until a check of it
\* returns New or a record_response of it writes a reply; and a check that finds its
\* key absent, or follows a clear of its key at once, returns New.
C17_ClearThenCheckIsNew ==
    [][/\ last'.status = "cleared"
          => /\ last'.key \notin DOMAIN transactions'
             /\ \A x \in Keys \ {last'.key} :
                   StateOf(transactions', x) = StateOf(transactions, x)
                       /\ (x \in DOMAIN transactions => transactions'[x] = transactions[x])
       /\ \A x \in Keys :
             (x \notin DOMAIN transactions /\ x \in DOMAIN transactions')
                 => \/ last'.status = "New" /\ last'.key = x
                    \/ \E t \in Tasks : /\ pending[t].op = "record_response"
                                        /\ pending[t].key = x
                                        /\ pending'[t] = NoCall
       /\ (last'.status \in CheckResults /\ last'.key \notin DOMAIN transactions)
             => last'.status = "New"
       /\ (last'.status \in CheckResults /\ last'.was # "none")
             => last'.status = "New"]_vars

\* the check that follows the clear of a key with a cached reply has returned New
C17_Witness ==
    /\ last.status = "New"
    /\ last.was = "Completed"
    /\ \E x \in DOMAIN transactions : x # last.key

(***************************************************************************)
(* Further claims about the identity map.                                  *)
(***************************************************************************)

\* C18: after every FSMap operation, every value of path_to_id is a key of
\* id_to_path.
C18_PathIdsHaveEntries ==
    \A p \in DOMAIN fsmap.path_to_id : fsmap.path_to_id[p] \in DOMAIN fsmap.id_to_path

\* delete_entry has destroyed an entry that existed, and paths other than the root
\* remain
C18_Witness ==
    /\ fsLast.op = "delete_entry"
    /\ fsLast.result = "Ok"
    /\ fsLast.id < fsmap.next_fileid
    /\ fsLast.id \notin DOMAIN fsmap.id_to_path
    /\ Cardinality(DOMAIN fsmap.path_to_id) >= 2

\* the FileIds the four maps mention
MapIds(m) ==
    (DOMAIN m.id_to_path) \cup (DOMAIN m.id_to_inode)
        \cup {m.path_to_id[x] : x \in DOMAIN m.path_to_id}
        \cup {m.inode_to_id[x] : x \in DOMAIN m.inode_to_id}

\* C19: the root is FileId 0; next_fileid never decreases and is greater than every
\* FileId in any of the four maps; a FileId that an operation brings into the maps is
\* at least 1 and at least the next_fileid before the operation, hence greater than
\* every FileId allocated earlier, also those whose entries are gone: no FileId is
\* allocated twice.
C19_FileIdsNeverReused ==
    [][/\ fsmap'.next_fileid >= fsmap.next_fileid
       /\ \A f \in MapIds(fsmap') : f < fsmap'.next_fileid
       /\ \A f \in MapIds(fsmap') \ MapIds(fsmap) :
             f >= 1 /\ f >= fsmap.next_fileid
       /\ <<>> \in DOMAIN fsmap'.path_to_id => fsmap'.path_to_id[<<>>] = RootId]_vars

\* create_entry has allocated a FileId after the entry of an earlier one was destroyed
C19_Witness ==
    /\ fsLast.op = "create_entry"
    /\ fsLast.result = "Ok"
    /\ ~fsLast.note.known
    /\ ~fsLast.note.inode_known
    /\ fsLast.rid = fsmap.next_fileid - 1
    /\ \E f \in 1..(fsLast.rid - 1) : f \notin MapIds(fsmap)

\* C20: refresh_entry is idempotent. When refresh_entry(id) has returned Noop or
\* Reload and the host has not changed since, the refresh_entry(id) that follows at
\* once returns Noop and leaves the four maps and every entry as they were.
C20_RefreshEntryIdempotent ==
    [][(/\ fsLast.op = "refresh_entry"
        /\ fsLast.result \in {"Noop", "Reload"}
        /\ fsLast'.op = "refresh_entry"
        /\ fsLast'.id = fsLast.id)
          => /\ fsLast'.result = "Noop"
             /\ fsmap' = fsmap]_vars

\* a refresh_entry that follows at once one that reloaded an entry with two aliases
\* on the host has returned Noop
C20_Witness ==
    /\ fsLast.op = "refresh_entry"
    /\ fsLast.note.prev = "Reload"
    /\ fsLast.result = "Noop"
    /\ fsLast.id \in DOMAIN fsmap.id_to_path
    /\ Cardinality(fsmap.id_to_path[fsLast.id].aliases) >= 2

(***************************************************************************)
(* The permission evaluator (src/vfs/permissions.rs).                      *)
(***************************************************************************)
\* uids and gids run from 0 (root) to MaxId
MaxId == 2
\* supplementary gids carried by a credential
MaxGids == 1
\* attr.mode runs from 0 to MaxMode (0o777)
MaxMode == 511
\* the requested mask runs from 0 to MaxRequested (all six ACCESS3 bits)
MaxRequested == 63

\* RFC 1813 ACCESS3 bits
ACCESS3_READ == 1
ACCESS3_LOOKUP == 2
ACCESS3_MODIFY == 4
ACCESS3_EXTEND == 8
ACCESS3_DELETE == 16
ACCESS3_EXECUTE == 32

\* a & b and a | b on unsigned integers
RECURSIVE BitAnd(_, _)
BitAnd(a, b) ==
    IF a = 0 \/ b = 0 THEN 0
    ELSE (a % 2) * (b % 2) + 2 * BitAnd(a \div 2, b \div 2)

RECURSIVE BitOr(_, _)
BitOr(a, b) ==
    IF a = 0 THEN b
    ELSE IF b = 0 THEN a
    ELSE Max(a % 2, b % 2) + 2 * BitOr(a \div 2, b \div 2)

\* nfs3::ftype3
ftype3 == {"NF3REG", "NF3DIR", "NF3BLK", "NF3CHR", "NF3LNK", "NF3SOCK", "NF3FIFO"}

Capabilities == {"ReadOnly", "ReadWrite"}

UnixPerms(r, w, x) == [read |-> r, write |-> w, exec |-> x]

auth_matches_gid(auth, gid) ==
    auth.gid = gid \/ \E i \in DOMAIN auth.gids : auth.gids[i] = gid

\* the fall-through an access check must not have: any class that matches may allow
unix_mode_permsMutantFallsThrough(attr, auth) ==
    LET mode == BitAnd(attr.mode, 511)
        owner == auth.uid = attr.uid
        group == auth_matches_gid(auth, attr.gid)
        bit(o, g, t) == \/ owner /\ BitAnd(mode, o) # 0
                        \/ group /\ BitAnd(mode, g) # 0
                        \/ BitAnd(mode, t) # 0
    IN  IF auth.uid = 0 THEN UnixPerms(TRUE, TRUE, TRUE)
        ELSE UnixPerms(bit(256, 32, 4), bit(128, 16, 2), bit(64, 8, 1))

unix_mode_perms(attr, auth) ==
    IF auth.uid = 0 THEN UnixPerms(TRUE, TRUE, TRUE)
    ELSE LET mode == BitAnd(attr.mode, 511)
         IN  IF auth.uid = attr.uid
                 THEN UnixPerms(BitAnd(mode, 256) # 0, BitAnd(mode, 128) # 0,
                                BitAnd(mode, 64) # 0)
             ELSE IF auth_matches_gid(auth, attr.gid)
                 THEN UnixPerms(BitAnd(mode, 32) # 0, BitAnd(mode, 16) # 0,
                                BitAnd(mode, 8) # 0)
             ELSE UnixPerms(BitAnd(mode, 4) # 0, BitAnd(mode, 2) # 0, BitAnd(mode, 1) # 0)

\* a server that forgets its capability
allow_writeMutantIgnoresCapability(capabilities, perms) == perms.write

\* supports_write && perms.write
allow_write(capabilities, perms) == capabilities = "ReadWrite" /\ perms.write

\* `if requested & BIT != 0 && allowed { granted_access |= BIT }`
grant_bit(granted_access, requested, bit, allowed) ==
    IF BitAnd(requested, bit) # 0 /\ allowed THEN BitOr(granted_access, bit)
    ELSE granted_access

\* the whole mask granted where one of its bits was asked for
grant_maskMutantWholeMask(granted_access, requested, mask, allowed) ==
    IF BitAnd(requested, mask) # 0 /\ allowed THEN BitOr(granted_access, mask)
    ELSE granted_access

\* `if requested & mask != 0 && allowed { granted_access |= requested & mask }`
grant_mask(granted_access, requested, mask, allowed) ==
    IF BitAnd(requested, mask) # 0 /\ allowed
        THEN BitOr(granted_access, BitAnd(requested, mask))
    ELSE granted_access

access_mask(attr, auth, capabilities, requested) ==
    LET perms == unix_mode_perms(attr, auth)
        write_ok == allow_write(capabilities, perms)
        write_mask == BitOr(ACCESS3_MODIFY, ACCESS3_EXTEND)
        delete_mask == ACCESS3_DELETE
        read == grant_bit(0, requested, ACCESS3_READ, perms.read)
    IN  CASE attr.ftype = "NF3REG" ->
                grant_mask(grant_bit(read, requested, ACCESS3_EXECUTE, perms.exec),
                           requested, write_mask, write_ok)
          [] attr.ftype = "NF3DIR" ->
                grant_mask(grant_bit(grant_bit(read, requested, ACCESS3_LOOKUP, perms.exec),
                                     requested, ACCESS3_EXECUTE, perms.exec),
                           requested, BitOr(write_mask, delete_mask),
                           write_ok /\ perms.exec)
          [] attr.ftype = "NF3LNK" ->
                grant_bit(read, requested, ACCESS3_EXECUTE, perms.exec)
          [] OTHER ->
                grant_bit(read, requested, ACCESS3_EXECUTE, perms.exec)

\* the credentials and attributes the evaluator is asked about
Auths == [uid : 0..MaxId, gid : 0..MaxId, gids : SeqsUpTo(0..MaxId, MaxGids)]

Fattrs(ftypes, modes, ids) == [ftype : ftypes, mode : modes, uid : ids, gid : ids]

\* every mode of the owner triad, over group and other triads that allow all or nothing
AccessModes == {64 * o + 9 * g : o \in 0..7, g \in {0, 7}}

\* the file's owner and group where the type and the mask are what varies
FileOwner == 1

\* the rest of the program, at rest
DispatchRest == TrackerInit /\ retention_period = OneSecond /\ FsInit /\ AwaitIdle

\* unix_mode_perms, for every mode, credential and owner
UnixModePermsInit ==
    /\ DispatchRest
    /\ call \in [op : {"unix_mode_perms"},
                 attr : Fattrs({"NF3REG"}, 0..MaxMode, 0..MaxId),
                 auth : Auths]
    /\ ret = None

UnixModePerms ==
    /\ call # None /\ call.op = "unix_mode_perms" /\ ret = None
    /\ ret' = unix_mode_perms(call.attr, call.auth)
    /\ UNCHANGED <<call, trackerVars, fsVars, awaitVars>>

SpecUnixModePerms == UnixModePermsInit /\ [][UnixModePerms]_vars

\* access_mask, for every file type, capability, requested mask and credential
AccessMaskInit ==
    /\ DispatchRest
    /\ call \in [op : {"access_mask"},
                 attr : Fattrs(ftype3, AccessModes, {FileOwner}),
                 auth : Auths,
                 capabilities : Capabilities,
                 requested : 0..MaxRequested]
    /\ ret = None

AccessMask ==
    /\ call # None /\ call.op = "access_mask" /\ ret = None
    /\ ret' = [granted |-> access_mask(call.attr, call.auth, call.capabilities,
                                       call.requested)]
    /\ UNCHANGED <<call, trackerVars, fsVars, awaitVars>>

SpecAccessMask == AccessMaskInit /\ [][AccessMask]_vars

(***************************************************************************)
(* Claims about the permission evaluator.                                  *)
(***************************************************************************)
\* bit b (a power of two) is set in mask m
HasBit(m, b) == (m \div b) % 2 = 1

\* the ACCESS3 bits, and the mask of all of them
Access3Bits == {ACCESS3_READ, ACCESS3_LOOKUP, ACCESS3_MODIFY, ACCESS3_EXTEND,
                ACCESS3_DELETE, ACCESS3_EXECUTE}

AllAccess3 == ACCESS3_READ + ACCESS3_LOOKUP + ACCESS3_MODIFY + ACCESS3_EXTEND +
              ACCESS3_DELETE + ACCESS3_EXECUTE

\* the bit positions a requested mask up to twice MaxRequested can reach
MaskBits == {b \in 1..(2 * MaxRequested) : \E k \in 0..7 : b = 2 ^ k}

\* C21: access_mask grants no bit that was not requested: every bit of granted is a bit
\* of requested, and a bit is granted exactly when it was requested and a request of all
\* six ACCESS3 bits, for the same file, credential and capability, is granted it.
C21_GrantedWithinRequested ==
    (ret # None /\ call.op = "access_mask") =>
        LET all == access_mask(call.attr, call.auth, call.capabilities, AllAccess3)
        IN  \A b \in MaskBits :
                /\ HasBit(ret.granted, b) => HasBit(call.requested, b)
                /\ HasBit(ret.granted, b) <=> (HasBit(call.requested, b) /\ HasBit(all, b))

\* a request that is granted some of its bits and refused others, and did not ask for a
\* bit it would have been granted
C21_Witness ==
    /\ ret # None /\ call.op = "access_mask"
    /\ ret.granted # 0 /\ ret.granted # call.requested
    /\ \E b \in Access3Bits :
          /\ ~HasBit(call.requested, b)
          /\ HasBit(access_mask(call.attr, call.auth, call.capabilities, AllAccess3), b)

\* C22: the write-class bits. On a regular file MODIFY and EXTEND are granted exactly when
\* requested, the caller has write permission and the capability is ReadWrite, and DELETE
\* never; on a directory MODIFY, EXTEND and DELETE exactly when requested, the caller has
\* write and exec permission and the capability is ReadWrite; on a symlink or any other
\* type none of the three, whoever asks; with a read-only capability none of the three.
C22_WriteClassBits ==
    (ret # None /\ call.op = "access_mask") =>
        LET perms == unix_mode_perms(call.attr, call.auth)
            rw == call.capabilities = "ReadWrite"
            asked(b) == HasBit(call.requested, b)
            got(b) == HasBit(ret.granted, b)
        IN  /\ call.attr.ftype = "NF3REG" =>
                /\ \A b \in {ACCESS3_MODIFY, ACCESS3_EXTEND} :
                        got(b) <=> (asked(b) /\ perms.write /\ rw)
                /\ ~got(ACCESS3_DELETE)
            /\ call.attr.ftype = "NF3DIR" =>
                \A b \in {ACCESS3_MODIFY, ACCESS3_EXTEND, ACCESS3_DELETE} :
                    got(b) <=> (asked(b) /\ perms.write /\ perms.exec /\ rw)
            /\ call.attr.ftype \notin {"NF3REG", "NF3DIR"} =>
                \A b \in {ACCESS3_MODIFY, ACCESS3_EXTEND, ACCESS3_DELETE} : ~got(b)
            /\ ~rw =>
                \A b \in {ACCESS3_MODIFY, ACCESS3_EXTEND, ACCESS3_DELETE} : ~got(b)

\* a directory grants DELETE and MODIFY but not the EXTEND that was not asked for, to a
\* caller who is not root
C22_Witness ==
    /\ ret # None /\ call.op = "access_mask"
    /\ call.attr.ftype = "NF3DIR" /\ call.auth.uid # 0
    /\ HasBit(ret.granted, ACCESS3_DELETE) /\ HasBit(ret.granted, ACCESS3_MODIFY)
    /\ ~HasBit(ret.granted, ACCESS3_EXTEND)

\* C23: unix_mode_perms reads exactly one permission class: uid 0 has read, write and
\* exec; otherwise the owner triad when auth.uid is the file's uid; otherwise the group
\* triad when auth.gid or a supplementary gid is the file's gid; otherwise the other
\* triad. An owner the owner bits deny stays denied whatever the group and other bits say.
C23_OnePermissionClass ==
    (ret # None /\ call.op = "unix_mode_perms") =>
        LET attr == call.attr
            auth == call.auth
            in_group == auth.gid = attr.gid \/
                        attr.gid \in {auth.gids[i] : i \in DOMAIN auth.gids}
            triad(shift) == UnixPerms(HasBit(attr.mode, 4 * shift),
                                      HasBit(attr.mode, 2 * shift),
                                      HasBit(attr.mode, shift))
        IN  ret = IF auth.uid = 0 THEN UnixPerms(TRUE, TRUE, TRUE)
                  ELSE IF auth.uid = attr.uid THEN triad(64)
                  ELSE IF in_group THEN triad(8)
                  ELSE triad(1)

\* an owner in the file's group, denied read by the owner bits where the group and the
\* other bits allow it
C23_Witness ==
    /\ ret # None /\ call.op = "unix_mode_perms"
    /\ call.auth.uid # 0 /\ call.auth.uid = call.attr.uid
    /\ call.auth.gid = call.attr.gid
    /\ ~HasBit(call.attr.mode, 256) /\ HasBit(call.attr.mode, 32) /\ HasBit(call.attr.mode, 4)
    /\ ~ret.read

(***************************************************************************)
(* The MNT procedure of MOUNT version 3 (src/protocol/nfs/mount/mnt.rs).   *)
(***************************************************************************)
\* request paths have up to MaxRequestLen bytes, the export name up to MaxExportLen
MaxRequestLen == 4
MaxExportLen == 2

\* the bytes of a path: the separator and two others
PathBytes == {"/", "a", "b"}

Slash == <<"/">>

\* Option<&[u8]>
NoSubpath == [some |-> FALSE, rest |-> <<>>]

SomeSubpath(rest) == [some |-> TRUE, rest |-> rest]

\* &path[n..]
DropFirst(path, n) == SubSeq(path, n + 1, Len(path))

RECURSIVE trim_start_slashes(_)
trim_start_slashes(path) ==
    IF path # <<>> /\ Head(path) = "/" THEN trim_start_slashes(Tail(path)) ELSE path

RECURSIVE trim_end_slashes(_)
trim_end_slashes(path) ==
    IF path # <<>> /\ path[Len(path)] = "/"
        THEN trim_end_slashes(SubSeq(path, 1, Len(path) - 1))
    ELSE path

trim_slashes(path) == trim_end_slashes(trim_start_slashes(path))

\* requested.starts_with(prefix)
starts_with(requested, prefix) ==
    Len(prefix) <= Len(requested) /\ SubSeq(requested, 1, Len(prefix)) = prefix

\* a match on the bytes of the export alone
export_subpathMutantBytePrefix(requested, export) ==
    IF starts_with(requested, export) THEN SomeSubpath(DropFirst(requested, Len(export)))
    ELSE NoSubpath

export_subpath(requested, export) ==
    IF export = Slash
        THEN IF ~starts_with(requested, Slash) THEN NoSubpath
             ELSE SomeSubpath(DropFirst(requested, 1))
    ELSE IF ~starts_with(requested, export) THEN NoSubpath
    ELSE LET rest == DropFirst(requested, Len(export))
         IN  IF rest = <<>> THEN SomeSubpath(rest)
             ELSE IF Head(rest) = "/" THEN SomeSubpath(DropFirst(rest, 1))
             ELSE NoSubpath

\* the reply, and the path handed to vfs.path_to_id if one was
MntReply(status, asked, path) == [status |-> status, asked |-> asked, path |-> path]

\* `resolves` is the answer of vfs.path_to_id for the path it is handed
mountproc3_mnt(path, export, resolves) ==
    LET sub == export_subpath(path, export)
    IN  IF ~sub.some THEN MntReply("MNT3ERR_NOENT", FALSE, <<>>)
        ELSE LET new_path == Slash \o trim_slashes(sub.rest)
             IN  IF resolves THEN MntReply("MNT3_OK", TRUE, new_path)
                 ELSE MntReply("MNT3ERR_NOENT", TRUE, new_path)

\* MNT, for every request path, export name and answer of the VFS
MntInit ==
    /\ DispatchRest
    /\ call \in [op : {"mnt"},
                 path : SeqsUpTo(PathBytes, MaxRequestLen),
                 export : SeqsUpTo(PathBytes, MaxExportLen),
                 resolves : BOOLEAN]
    /\ ret = None

Mnt ==
    /\ call # None /\ call.op = "mnt" /\ ret = None
    /\ ret' = mountproc3_mnt(call.path, call.export, call.resolves)
    /\ UNCHANGED <<call, trackerVars, fsVars, awaitVars>>

SpecMnt == MntInit /\ [][Mnt]_vars

(***************************************************************************)
(* Claims about MNT.                                                       *)
(***************************************************************************)
\* the request names the export or something below it, component by component
MatchesExport(path, export) ==
    IF export = Slash THEN Len(path) >= 1 /\ path[1] = "/"
    ELSE /\ Len(path) >= Len(export)
         /\ \A i \in 1..Len(export) : path[i] = export[i]
         /\ Len(path) > Len(export) => path[Len(export) + 1] = "/"

\* t is s without its leading and trailing separators
IsTrimmed(t, s) ==
    \E i \in 1..(Len(s) + 1), j \in 0..Len(s) :
        /\ t = SubSeq(s, i, j)
        /\ \A k \in 1..(i - 1) : s[k] = "/"
        /\ \A k \in (j + 1)..Len(s) : s[k] = "/"
        /\ t # <<>> => t[1] # "/" /\ t[Len(t)] # "/"

\* C24: MNT matches the request against the export on whole components: with export "/"
\* the request begins with "/", otherwise the export is a byte prefix of the request and
\* the byte after it, if any, is "/". A request that does not match is answered
\* MNT3ERR_NOENT without the VFS being asked; for one that matches, the path resolved
\* through the VFS is "/" followed by the remainder without leading and trailing "/".
C24_MntMatchesWholeComponents ==
    (ret # None /\ call.op = "mnt") =>
        IF MatchesExport(call.path, call.export)
            THEN LET skip == IF call.export = Slash THEN 1 ELSE Len(call.export)
                     remainder == SubSeq(call.path, skip + 1, Len(call.path))
                 IN  /\ ret.asked
                     /\ ret.path[1] = "/"
                     /\ IsTrimmed(Tail(ret.path), remainder)
                     /\ ret.status = IF call.resolves THEN "MNT3_OK" ELSE "MNT3ERR_NOENT"
        ELSE ret.status = "MNT3ERR_NOENT" /\ ~ret.asked

\* export "/a": the request "/ab" is refused, and "/a//b/" resolves "/b"
C24_Witness ==
    /\ ret # None /\ call.op = "mnt" /\ call.export = <<"/", "a">>
    /\ \/ call.path = <<"/", "a", "b">> /\ ret.status = "MNT3ERR_NOENT" /\ ~ret.asked
          /\ call.resolves
       \/ call.path = <<"/", "a", "/", "b">> /\ ret.path = <<"/", "b">>
          /\ ret.status = "MNT3_OK"

(***************************************************************************)
(* XDR padding (src/protocol/xdr/utils.rs).                                *)
(***************************************************************************)
\* the padded length runs from 0 to MaxSrcLen
MaxSrcLen == 9
\* bytes left in the reader, and room left in the writer
MaxBuffer == 4

ALIGNMENT == 4

\* the mutant forgets the outer `% ALIGNMENT`
padding_lenMutantNoOuterMod(src_len) == ALIGNMENT - (src_len % ALIGNMENT)

padding_len(src_len) == (ALIGNMENT - (src_len % ALIGNMENT)) % ALIGNMENT

\* Read::read_exact of `want` bytes from a reader holding `src`: a short reader is
\* drained and the call fails
read_exact(src, want) ==
    IF Len(src) >= want THEN [ok |-> TRUE, consumed |-> want, got |-> SubSeq(src, 1, want)]
    ELSE [ok |-> FALSE, consumed |-> Len(src), got |-> src]

\* Write::write_all of `bytes` to a writer with room for `room` more: what fits is
\* written, and the call fails if that is not all
write_all(room, bytes) ==
    IF Len(bytes) <= room THEN [ok |-> TRUE, written |-> bytes]
    ELSE [ok |-> FALSE, written |-> SubSeq(bytes, 1, room)]

read_padding(src_len, src) ==
    LET pad_len == padding_len(src_len)
    IN  IF pad_len > 0 THEN read_exact(src, pad_len)
        ELSE [ok |-> TRUE, consumed |-> 0, got |-> <<>>]

write_padding(src_len, room) ==
    LET pad_len == padding_len(src_len)
        padding_buffer == [i \in 1..ALIGNMENT |-> 0]
    IN  IF pad_len > 0 THEN write_all(room, SubSeq(padding_buffer, 1, pad_len))
        ELSE [ok |-> TRUE, written |-> <<>>]

\* read_padding and write_padding, for every length, reader and writer; the bytes in the
\* reader are 0 or 1, padding need not be zero on the wire
PaddingInit ==
    /\ DispatchRest
    /\ \/ call \in [op : {"read_padding"}, src_len : 0..MaxSrcLen,
                    src : SeqsUpTo({0, 1}, MaxBuffer)]
       \/ call \in [op : {"write_padding"}, src_len : 0..MaxSrcLen, room : 0..MaxBuffer]
    /\ ret = None

ReadPadding ==
    /\ call # None /\ call.op = "read_padding" /\ ret = None
    /\ ret' = read_padding(call.src_len, call.src)
    /\ UNCHANGED <<call, trackerVars, fsVars, awaitVars>>

WritePadding ==
    /\ call # None /\ call.op = "write_padding" /\ ret = None
    /\ ret' = write_padding(call.src_len, call.room)
    /\ UNCHANGED <<call, trackerVars, fsVars, awaitVars>>

PaddingNext == ReadPadding \/ WritePadding

SpecPadding == PaddingInit /\ [][PaddingNext]_vars

(***************************************************************************)
(* Claims about XDR padding.                                               *)
(***************************************************************************)
\* C25: padding_len(n) is the one p in 0..3 with (n + p) mod 4 = 0. write_padding(n)
\* writes exactly p bytes, all zero, to a writer that has room for them; read_padding(n)
\* consumes exactly p bytes, none when n is a multiple of 4, and fails when fewer than p
\* bytes remain.
C25_PaddingToFourBytes ==
    (ret # None /\ call.op \in {"read_padding", "write_padding"}) =>
        LET n == call.src_len
            p == padding_len(n)
        IN  /\ p \in 0..3 /\ (n + p) % 4 = 0
            /\ \A q \in 0..3 : (n + q) % 4 = 0 => q = p
            /\ call.op = "read_padding" =>
                /\ ret.ok <=> Len(call.src) >= p
                /\ ret.ok => ret.consumed = p
                /\ n % 4 = 0 => ret.consumed = 0
            /\ call.op = "write_padding" =>
                /\ \A i \in DOMAIN ret.written : ret.written[i] = 0
                /\ ret.ok <=> call.room >= p
                /\ ret.ok => Len(ret.written) = p

\* the cases of the unit tests: three bytes read or written for a length of 5
C25_Witness ==
    /\ ret # None /\ call.src_len = 5 /\ ret.ok
    /\ \/ call.op = "read_padding" /\ Len(call.src) = 3 /\ ret.consumed = 3
       \/ call.op = "write_padding" /\ Len(ret.written) = 3

(***************************************************************************)
(* Further claims about the identity map.                                  *)
(***************************************************************************)
\* C26: when refresh_entry(id) returns Delete the entry is gone from the map:
\* find_entry(id) is NFS3ERR_NOENT, no key of path_to_id maps to id, and id has no pair
\* left in id_to_inode and inode_to_id.
C26_DeleteLeavesNoEntry ==
    (fsLast.op = "refresh_entry" /\ fsLast.result = "Delete") =>
        /\ find_entry(fsmap, fsLast.id).result = "NFS3ERR_NOENT"
        /\ \A p \in DOMAIN fsmap.path_to_id : fsmap.path_to_id[p] # fsLast.id
        /\ fsLast.id \notin DOMAIN fsmap.id_to_inode
        /\ \A k \in DOMAIN fsmap.inode_to_id : fsmap.inode_to_id[k] # fsLast.id

\* C27: after delete_entry(id), for an entry with any number of aliases, id is a key of
\* neither id_to_path nor id_to_inode and no key of path_to_id maps to id.
C27_DeleteEntryRemovesId ==
    fsLast.op = "delete_entry" =>
        /\ fsLast.id \notin DOMAIN fsmap.id_to_path
        /\ fsLast.id \notin DOMAIN fsmap.id_to_inode
        /\ \A p \in DOMAIN fsmap.path_to_id : fsmap.path_to_id[p] # fsLast.id

(***************************************************************************)
(* refresh_entry and refresh_dir_list as the tasks run them: each is an    *)
(* `async fn (&mut self)`, so the task inside one has the map to itself    *)
(* from the call to the return, across every await in between; the host    *)
(* changes out of band while the task is suspended.                        *)
(***************************************************************************)
\* FSMap operations the tasks start
MaxAwaitOps == 3

\* the awaits on host I/O inside the two operations
HostIoAwaits == {"symlink_metadata", "read_dir", "metadata"}

\* a step of an operation of task t: the map it leaves, the task's new position, and
\* what the operation returned if it has
AwaitStep(t, m, task, done) ==
    /\ m.next_fileid <= MaxFileId + 1
    /\ fsmap' = m
    /\ mapTask' = [mapTask EXCEPT ![t] = task]
    /\ mapOwner' = IF task.pc = "idle" THEN 0 ELSE t
    /\ fsLast' = done
    /\ UNCHANGED <<hostPaths, hostInodes, hostSeen, hostSteps, mapRenames>>
    /\ UNCHANGED <<trackerVars, dispatchVars>>

\* the call: no other task is inside an operation
AwaitEnter(t) ==
    /\ ~fsmap.aborted
    /\ mapOwner = 0
    /\ mapTask[t].pc = "idle"
    /\ mapSteps < MaxAwaitOps
    /\ mapSteps' = mapSteps + 1

AwaitReturned(op, id, result) == FsOp(op, id, 0, <<>>, <<>>, result, 0, None)

\* refresh_entry up to its await of fs::symlink_metadata: the loop over the aliases
RefreshEntryCall(t, id) ==
    /\ AwaitEnter(t)
    /\ id \in HeldIds(fsmap)
    /\ IF id \notin DOMAIN fsmap.id_to_path
       THEN AwaitStep(t, fsmap, IdleTask, AwaitReturned("refresh_entry", id, "NFS3ERR_NOENT"))
       ELSE LET entry == fsmap.id_to_path[id]
                existing == {a \in entry.aliases :
                               exists_no_traverse(hostPaths, sym_to_path(fsmap.intern, a))}
                m1 == [fsmap EXCEPT !.path_to_id =
                           MapRestrict(@, (DOMAIN @) \ (entry.aliases \ existing))]
            IN  IF existing = {}
                THEN AwaitStep(t, delete_entry(m1, id), IdleTask,
                               AwaitReturned("refresh_entry", id, "Delete"))
                ELSE AwaitStep(t, m1,
                               [IdleTask EXCEPT !.pc = "symlink_metadata", !.id = id,
                                                !.entry = entry, !.existing = existing],
                               NoFsOp)

\* fs::symlink_metadata completes, on the host as it is by then
RefreshEntryResume(t) ==
    /\ mapTask[t].pc = "symlink_metadata"
    /\ UNCHANGED mapSteps
    /\ LET task == mapTask[t]
           r == refresh_entry_existing(fsmap, hostPaths, hostInodes, task.id, task.entry,
                                       task.existing)
       IN  AwaitStep(t, r.m, IdleTask, AwaitReturned("refresh_entry", task.id, r.result))

\* refresh_dir_list up to its await of fs::read_dir
RefreshDirListCall(t, id) ==
    /\ AwaitEnter(t)
    /\ id \in HeldIds(fsmap)
    /\ IF id \notin DOMAIN fsmap.id_to_path
       THEN AwaitStep(t, fsmap, IdleTask,
                      AwaitReturned("refresh_dir_list", id, "NFS3ERR_NOENT"))
       ELSE LET entry == fsmap.id_to_path[id]
            IN  IF \/ entry.children.some /\ ~fattr3_differ(entry.children_meta, entry.fsmeta)
                   \/ ~is_directory(entry)
                THEN AwaitStep(t, fsmap, IdleTask,
                               AwaitReturned("refresh_dir_list", id, "Ok"))
                ELSE AwaitStep(t, fsmap,
                               [IdleTask EXCEPT !.pc = "read_dir", !.id = id,
                                                !.entry = entry],
                               NoFsOp)

\* fs::read_dir completes: the directory cannot be opened and the operation returns, or
\* the listing is what the directory holds by then, in the order `order`
ReadDirResume(t, order) ==
    /\ mapTask[t].pc = "read_dir"
    /\ UNCHANGED mapSteps
    /\ LET task == mapTask[t]
           path == sym_to_path(fsmap.intern, task.entry.name)
       IN  IF ~HostReadDirOk(hostPaths, hostInodes, path)
           THEN /\ order = <<>>
                /\ AwaitStep(t, fsmap, IdleTask,
                             AwaitReturned("refresh_dir_list", task.id, "Ok"))
           ELSE /\ order \in Perms(HostListing(hostPaths, path))
                /\ AwaitStep(t, fsmap, [task EXCEPT !.pc = "metadata", !.rest = order],
                             NoFsOp)

\* listing.next_entry() yields the next name and entry.metadata() completes: the name is
\* interned, then `.unwrap()` panics if the name is gone from the host by then; the
\* panic unwinds out of the operation
MetadataResume(t) ==
    /\ mapTask[t].pc = "metadata"
    /\ mapTask[t].rest # <<>>
    /\ UNCHANGED mapSteps
    /\ LET task == mapTask[t]
           n == Head(task.rest)
           dir == sym_to_path(fsmap.intern, task.entry.name)
       IN  IF ~HostExists(hostPaths, Append(dir, n))
           THEN AwaitStep(t, [fsmap EXCEPT !.intern = intern(@, n)], IdleTask,
                          AwaitReturned("refresh_dir_list", task.id, "panic"))
           ELSE LET listed == ListEntries(fsmap, hostPaths, hostInodes, task.entry.name,
                                          <<n>>, task.new_children)
                IN  AwaitStep(t, listed.m,
                              [task EXCEPT !.rest = Tail(@),
                                           !.new_children = listed.new_children],
                              NoFsOp)

\* listing.next_entry() yields None: the rest of refresh_dir_list
RefreshDirListReturn(t) ==
    /\ mapTask[t].pc = "metadata"
    /\ mapTask[t].rest = <<>>
    /\ UNCHANGED mapSteps
    /\ LET task == mapTask[t]
           r == RelistDone(fsmap, task.id, task.entry, task.new_children)
       IN  AwaitStep(t, r.m, IdleTask, AwaitReturned("refresh_dir_list", task.id, r.result))

AwaitNext ==
    \/ \E p \in HostPathSet, ino \in Inodes, ftype \in FileTypes : HostCreate(p, ino, ftype)
    \/ \E p \in HostPathSet : HostUnlink(p)
    \/ \E ino \in Inodes \cup {RootIno}, ver \in 0..MaxVersion : HostTouch(ino, ver)
    \/ \E t \in Tasks, id \in 0..(MaxFileId + 1) : RefreshEntryCall(t, id)
    \/ \E t \in Tasks : RefreshEntryResume(t)
    \/ \E t \in Tasks, id \in 0..(MaxFileId + 1) : RefreshDirListCall(t, id)
    \/ \E t \in Tasks, order \in SeqsUpTo(Names, NumNames) : ReadDirResume(t, order)
    \/ \E t \in Tasks : MetadataResume(t)
    \/ \E t \in Tasks : RefreshDirListReturn(t)

SpecAwait == InitFS /\ [][AwaitNext]_vars

\* C28: no task is suspended on host I/O while it has the map to itself: in refresh_entry
\* and refresh_dir_list the exclusive access covers only in-memory mutation, so no other
\* task's FSMap operation waits for the duration of a host stat or directory read.
C28_NoExclusiveAccessAcrossHostIo ==
    \A t \in Tasks : mapTask[t].pc \in HostIoAwaits => mapOwner # t

\* C29: no FSMap operation panics because of an out-of-band host change:
\* refresh_dir_list returns success or an NFS error when a name its listing yielded is
\* deleted on the host before its metadata is read.
C29_NoPanicOnHostChange ==
    fsLast.op = "refresh_dir_list" => fsLast.result \in {"Ok", "NFS3ERR_NOENT", "NFS3ERR_IO"}

\* C30: remove_path_tree(p, id) on a directory entry removes the whole subtree:
\* afterwards no key of path_to_id is p or has p as a prefix, while a file below p that
\* has another alias outside the subtree keeps its FileId and that alias.
C30_RemovePathTreeRemovesSubtree ==
    [][(/\ fsLast'.op = "remove_path_tree"
        /\ fsLast'.id \in DOMAIN fsmap.id_to_path
        /\ is_directory(fsmap.id_to_path[fsLast'.id]))
       => LET p == fsLast'.from
          IN  /\ \A q \in DOMAIN fsmap'.path_to_id : ~IsPrefix(p, q)
              /\ \A q \in DOMAIN fsmap.path_to_id :
                    (/\ ~IsPrefix(p, q)
                     /\ \E r \in DOMAIN fsmap.path_to_id :
                           IsPrefix(p, r) /\ fsmap.path_to_id[r] = fsmap.path_to_id[q])
                    => /\ q \in DOMAIN fsmap'.path_to_id
                       /\ fsmap'.path_to_id[q] = fsmap.path_to_id[q]
                       /\ fsmap.path_to_id[q] \in DOMAIN fsmap.id_to_path
                             => /\ fsmap.path_to_id[q] \in DOMAIN fsmap'.id_to_path
                                /\ q \in fsmap'.id_to_path[fsmap.path_to_id[q]].aliases]_vars

(***************************************************************************)
(* remove_path and find_child over an exported directory of hard links:   *)
(* the names of the directory are links to regular files, and the map has  *)
(* an entry for each name, created in any order, the first created alias   *)
(* of an inode being the entry's primary.                                  *)
(***************************************************************************)
\* names in the exported directory
NumLinkNames == 3

\* a caller that made the names of `order` in the exported directory: for each it
\* interns the name, stats the path and calls create_entry
RECURSIVE CreateLinks(_, _, _)
CreateLinks(m, order, links) ==
    IF order = <<>> THEN m
    ELSE LET table == intern(m.intern, Head(order))
             fullpath == <<check_interned(table, Head(order))>>
             meta == [ino |-> links[Head(order)], ftype |-> "NF3REG", ver |-> 0]
         IN  CreateLinks(create_entry([m EXCEPT !.intern = table], fullpath, meta).m,
                         Tail(order), links)

\* the map after the entries of some of the names were created, in some order
LinksInit ==
    /\ TrackerInit /\ retention_period = OneSecond /\ DispatchIdle /\ AwaitIdle
    /\ \E links \in [1..NumLinkNames -> Inodes], present \in SUBSET (1..NumLinkNames) :
          /\ hostPaths = [p \in {<<n>> : n \in present} |-> links[p[1]]]
          /\ hostInodes = [i \in {RootIno} \cup {links[n] : n \in present} |->
                              [ftype |-> IF i = RootIno THEN "NF3DIR" ELSE "NF3REG",
                               ver |-> 0, readable |-> TRUE]]
          /\ \E order \in Perms(present) : fsmap = CreateLinks(FSMapNew, order, links)
    /\ fsLast = NoFsOp
    /\ hostSeen = [names |-> NumLinkNames, inodes |-> NumInodes]
    /\ mapRenames = "none"
    /\ hostSteps = 0
    /\ mapSteps = 0

\* a caller asks for the child `filename` of the entry `id`
FindChild(id, filename) ==
    /\ ~fsmap.aborted
    /\ LET r == find_child(fsmap, id, filename)
       IN  FsReturn(r.m, FsOp("find_child", id, filename, <<>>, <<>>, r.result, r.id, None))

LinksNext ==
    \/ \E path \in SeqsUpTo(1..NumLinkNames, MaxDepth) : RemovePath(path)
    \/ \E id \in 0..(MaxFileId + 1), filename \in 1..NumLinkNames : FindChild(id, filename)

SpecLinks == LinksInit /\ [][LinksNext]_vars

(***************************************************************************)
(* Claims about remove_path and find_child.                                *)
(***************************************************************************)
\* C31: remove_path(path), by what the map knew of the path. A path that is not a
\* key of path_to_id: the map is left as it was. The only alias of its entry: the
\* same step removes the entry from id_to_path and its pair from id_to_inode and
\* inode_to_id. One alias of several: the FileId, both inode maps and the other
\* aliases stay as they were, and when the path was the primary the smallest of the
\* other aliases, in the order of Vec<Symbol>, is the primary.
C31_RemovePathByAliasCount ==
    [][fsLast'.op = "remove_path" =>
          LET path == fsLast'.from
          IN  IF path \notin DOMAIN fsmap.path_to_id THEN fsmap' = fsmap
              ELSE LET id == fsmap.path_to_id[path]
                   IN  (id \in DOMAIN fsmap.id_to_path
                           /\ path \in fsmap.id_to_path[id].aliases)
                       => LET entry == fsmap.id_to_path[id]
                              others == entry.aliases \ {path}
                          IN  /\ path \notin DOMAIN fsmap'.path_to_id
                              /\ others = {}
                                   => /\ id \notin DOMAIN fsmap'.id_to_path
                                      /\ id \notin DOMAIN fsmap'.id_to_inode
                                      /\ \A k \in DOMAIN fsmap'.inode_to_id :
                                            fsmap'.inode_to_id[k] # id
                              /\ others # {}
                                   => /\ id \in DOMAIN fsmap'.id_to_path
                                      /\ fsmap'.id_to_inode = fsmap.id_to_inode
                                      /\ fsmap'.inode_to_id = fsmap.inode_to_id
                                      /\ fsmap'.id_to_path[id].aliases = others
                                      /\ \A a \in others :
                                            a \in DOMAIN fsmap.path_to_id
                                               => /\ a \in DOMAIN fsmap'.path_to_id
                                                  /\ fsmap'.path_to_id[a]
                                                        = fsmap.path_to_id[a]
                                      /\ IF entry.name = path
                                         THEN /\ fsmap'.id_to_path[id].name \in others
                                              /\ \A b \in others :
                                                    \/ b = fsmap'.id_to_path[id].name
                                                    \/ LexLess(fsmap'.id_to_path[id].name, b)
                                         ELSE fsmap'.id_to_path[id].name = entry.name]_vars

\* remove_path has removed the primary of an entry with two more aliases, and the
\* smaller of the two is the primary
C31_Witness ==
    /\ fsLast.op = "remove_path"
    /\ fsLast.note.known
    /\ fsLast.note.primary
    /\ fsLast.note.others = 2
    /\ \E id \in DOMAIN fsmap.id_to_path :
          /\ Cardinality(fsmap.id_to_path[id].aliases) = 2
          /\ fsmap.id_to_path[id].name \in fsmap.id_to_path[id].aliases
          /\ fsLast.from \notin fsmap.id_to_path[id].aliases

\* C32: find_child(id, filename) is read-only and answers from path_to_id. The symbol
\* table and the four maps are after the call what they were before, so a name
\* without a symbol gets none. The answer is NFS3ERR_NOENT when id is not a key of
\* id_to_path, when the name has no symbol, or when the entry's name followed by the
\* symbol is not a key of path_to_id; otherwise it is the FileId path_to_id has for
\* that path.
C32_FindChildReadOnly ==
    [][fsLast'.op = "find_child" =>
          /\ fsmap'.intern = fsmap.intern
          /\ fsmap'.id_to_path = fsmap.id_to_path
          /\ fsmap'.path_to_id = fsmap.path_to_id
          /\ fsmap'.id_to_inode = fsmap.id_to_inode
          /\ fsmap'.inode_to_id = fsmap.inode_to_id
          /\ LET id == fsLast'.id
                 syms == {i \in DOMAIN fsmap.intern : fsmap.intern[i] = fsLast'.name}
             IN  IF \/ id \notin DOMAIN fsmap.id_to_path
                    \/ syms = {}
                    \/ \A i \in syms :
                          Append(fsmap.id_to_path[id].name, i) \notin DOMAIN fsmap.path_to_id
                 THEN fsLast'.result = "NFS3ERR_NOENT"
                 ELSE /\ fsLast'.result = "Ok"
                      /\ \E i \in syms :
                            fsLast'.rid
                               = fsmap.path_to_id[Append(fsmap.id_to_path[id].name, i)]]_vars

\* find_child was asked, in a directory whose entry the map has, for a name that has
\* no symbol, while other names have one
C32_Witness ==
    /\ fsLast.op = "find_child"
    /\ fsLast.id \in DOMAIN fsmap.id_to_path
    /\ is_directory(fsmap.id_to_path[fsLast.id])
    /\ fsmap.intern # <<>>
    /\ \A i \in DOMAIN fsmap.intern : fsmap.intern[i] # fsLast.name
    /\ fsLast.result = "NFS3ERR_NOENT"

(***************************************************************************)
(* Further claims about the transaction tracker.                           *)
(***************************************************************************)
\* C33: record_response(x, a, b) overwrites unconditionally. Whatever the key was when
\* the call takes the mutex (absent: never checked, cleared or evicted; InProgress;
\* Completed with any bytes), the call leaves it Completed with the bytes b and, as
\* completion_time, the clock reading of the call. So the bytes a check replays for a
\* key are those of the last record_response that reached the store before it, one
\* that came after a clear or after another record_response included.
C33_RecordResponseOverwrites ==
    [][/\ \A t \in Tasks :
             (pending[t].op = "record_response" /\ pending'[t].op = "none")
                 => /\ pending[t].key \in DOMAIN transactions'
                    /\ transactions'[pending[t].key].state = "Completed"
                    /\ transactions'[pending[t].key].response = pending[t].response
                    /\ transactions'[pending[t].key].completion_time = pending[t].now
       /\ (last'.status = "Completed" /\ last'.recorded # None)
             => last'.response = last'.recorded.response]_vars

\* a check has replayed the bytes of a record_response that found its key neither
\* in flight nor replayed before: never checked, cleared, or evicted
C33_Witness ==
    /\ last.status = "Completed"
    /\ ~last.armedBefore
    /\ last.recorded # None
    /\ last.response = last.recorded.response
    /\ transactions[last.key].response = last.response

\* C34: the housekeeping trigger. A check sweeps exactly when the store is not empty
\* and more than the housekeeping interval H has passed since the last sweep, H being
\* max(1s, D/4) for a retention period D of at least one second and D for a shorter
\* one; a check that finds the store empty leaves last_housekeeping as it was; and
\* record_response and clear never sweep: they leave last_housekeeping and the entry
\* of every other key as they were.
C34_SweepAfterMoreThanInterval ==
    [][/\ last'.status \in CheckResults
          => LET H == IF retention_period >= OneSecond
                      THEN (IF retention_period \div 4 > OneSecond
                            THEN retention_period \div 4 ELSE OneSecond)
                      ELSE retention_period
             IN  /\ last'.swept <=> /\ DOMAIN transactions # {}
                                    /\ last'.now - last_housekeeping > H
                 /\ last'.swept => last_housekeeping' = last'.now
                 /\ ~last'.swept => last_housekeeping' = last_housekeeping
                 /\ DOMAIN transactions = {} => last_housekeeping' = last_housekeeping
       /\ (\/ last'.status = "cleared"
           \/ \E t \in Tasks : pending[t].op = "record_response" /\ pending'[t].op = "none")
          => /\ last_housekeeping' = last_housekeeping
             /\ \A x \in DOMAIN transactions :
                   x \in DOMAIN transactions' \/ last'.key = x]_vars

====
